---- MODULE Spec2Model ----
(***************************************************************************)
(* Model of the capability-matrix store (ExpoSQLiteDatabase), its bulk     *)
(* delete / restore ledger, and the comparison aggregator                  *)
(* (buildComparisonData, getRequirementDeleteInfo).                        *)
(*                                                                         *)
(* Text values are sequences of one-character strings so that trimming and *)
(* case folding are computed character by character.  JavaScript values    *)
(* that may be null / number / string are tagged records.                  *)
(***************************************************************************)
EXTENDS Integers, Sequences, FiniteSets, TLC

VARIABLES
    matrices,       \* table "matrices": set of rows, primary key id
    matrix_rows,    \* table "matrix_rows": sequence of rows in rowid order
    clock,          \* value the next getCurrentTimestamp() returns
    nextMatrixId,   \* generateId('matrix'): ids are never reused
    nextRowId,      \* generateId('row'): ids are never reused
    call,           \* the last store call: name, argument, outcome, store before it
    prev,           \* the store call before that
    undoData,       \* deletedRows the caller holds for undo (toast.undoData), <<>> if none
    cmpInput,       \* argument of buildComparisonData
    cmpData,        \* value returned by buildComparisonData
    cmpInfo,        \* value returned by getRequirementDeleteInfo
    cmpPc,          \* "idle", "input" (argument chosen), "built", "asked"
    numCall,        \* a call of a requirementNumber.ts function: its name and arguments
    numOut,         \* what that call returned, NoResult before it returns
    xlsCall,        \* a call of an importer function: its name and argument
    xlsOut,         \* what that call returned, NoResult before it returns
    expCall,        \* a call of exportMatrixToExcel: the matrix and the metadata
    expOut,         \* the worksheet it built, NoResult before it returns
    pendingSaves,   \* useDebouncedSave's Map rowId -> updates, in insertion order
    timeoutRef,     \* timeoutRef.current: "null", "scheduled", or "done" (fired or cleared)
    isMountedRef,   \* isMountedRef.current
    saveRuns,       \* the runs of performSave that await a call of updateMatrixRow
    savedRows,      \* the edited fields of the stored rows
    saveLog         \* the calls of queueSave, updateMatrixRow and onError so far

vars == <<matrices, matrix_rows, clock, nextMatrixId, nextRowId, call, prev,
          undoData, cmpInput, cmpData, cmpInfo, cmpPc, numCall, numOut, xlsCall, xlsOut,
          expCall, expOut,
          pendingSaves, timeoutRef, isMountedRef, saveRuns, savedRows, saveLog>>

storeVars == <<matrices, matrix_rows, clock, nextMatrixId, nextRowId, call, prev, undoData>>

cmpVars == <<cmpInput, cmpData, cmpInfo, cmpPc>>

numVars == <<numCall, numOut>>

xlsVars == <<xlsCall, xlsOut>>

expVars == <<expCall, expOut>>

saveVars == <<pendingSaves, timeoutRef, isMountedRef, saveRuns, savedRows, saveLog>>

auxVars == <<expVars, saveVars>>

libVars == <<numVars, xlsVars, auxVars>>

----------------------------------------------------------------------------
(* Bounds *)

MaxMatrices == 2

MaxRows == 2

MaxClock == 7

MaxCmpMatrices == 2

MaxCmpRows == 2

----------------------------------------------------------------------------
(* JavaScript values *)

JsNull == [t |-> "null"]

Num(n) == [t |-> "num", v |-> n]

Str(s) == [t |-> "str", v |-> s]

NaN == [t |-> "nan"]

----------------------------------------------------------------------------
(* Characters and the two normalizations *)

\* "E'" and "e'" stand for the non-ASCII pair U+00C9 / U+00E9.
Chars == {" ", "\t", "f", "F", "g", "p", "c", "E'", "e'"}

\* String.prototype.trim strips every white-space character.
JsWhiteSpace == {" ", "\t"}

\* SQLite TRIM(X) strips spaces only.
SqlWhiteSpace == {" "}

\* String.prototype.toLowerCase folds every cased character.
JsLowerChar(c) ==
    CASE c = "F" -> "f"
      [] c = "E'" -> "e'"
      [] c = "C" -> "c"
      [] c = "N" -> "n"
      [] c = "R" -> "r"
      [] c = "D" -> "d"
      [] c = "E" -> "e"
      [] c = "G" -> "g"
      [] c = "I" -> "i"
      [] c = "M" -> "m"
      [] c = "O" -> "o"
      [] c = "P" -> "p"
      [] c = "S" -> "s"
      [] c = "T" -> "t"
      [] c = "V" -> "v"
      [] c = "W" -> "w"
      [] OTHER -> c

\* SQLite LOWER(X) folds ASCII characters only.
SqlLowerChar(c) ==
    CASE c = "F" -> "f"
      [] c = "C" -> "c"
      [] c = "N" -> "n"
      [] c = "R" -> "r"
      [] c = "D" -> "d"
      [] c = "E" -> "e"
      [] c = "G" -> "g"
      [] c = "I" -> "i"
      [] c = "M" -> "m"
      [] c = "O" -> "o"
      [] c = "P" -> "p"
      [] c = "S" -> "s"
      [] c = "T" -> "t"
      [] c = "V" -> "v"
      [] c = "W" -> "w"
      [] OTHER -> c

RECURSIVE TrimLeft(_, _)
TrimLeft(s, ws) ==
    IF s # <<>> /\ Head(s) \in ws THEN TrimLeft(Tail(s), ws) ELSE s

RECURSIVE TrimRight(_, _)
TrimRight(s, ws) ==
    IF s # <<>> /\ s[Len(s)] \in ws
    THEN TrimRight(SubSeq(s, 1, Len(s) - 1), ws)
    ELSE s

JsTrim(s) == TrimRight(TrimLeft(s, JsWhiteSpace), JsWhiteSpace)

JsToLowerCase(s) == [i \in 1..Len(s) |-> JsLowerChar(s[i])]

SqlTrim(s) == TrimRight(TrimLeft(s, SqlWhiteSpace), SqlWhiteSpace)

SqlLower(s) == [i \in 1..Len(s) |-> SqlLowerChar(s[i])]

\* text.toLowerCase() without the trim
normalizeRequirement_NoTrim(text) == JsToLowerCase(text)

normalizeRequirement(text) == JsToLowerCase(JsTrim(text))

----------------------------------------------------------------------------
(* Score conversion between the application type and the TEXT column *)

Digits == <<"0", "1", "2", "3", "4", "5", "6", "7", "8", "9">>

\* Number.prototype.toString for the one-digit numbers a Score can be.
NumToString(n) == Digits[n + 1]

\* parseInt(value, 10) on a one-token string: a digit parses, anything else is NaN.
ParseInt(s) ==
    IF \E d \in 0..9 : Digits[d + 1] = s
    THEN Num(CHOOSE d \in 0..9 : Digits[d + 1] = s)
    ELSE NaN

\* input.experienceAndCapability?.toString() ?? null   (createMatrixRow)
CreateScoreToDb(score) ==
    IF score = JsNull THEN JsNull ELSE Str(NumToString(score.v))

\* row.experienceAndCapability ? row.experienceAndCapability.toString() : null
RestoreScoreToDb_Falsy(score) ==
    IF score = JsNull \/ score = Num(0) THEN JsNull ELSE Str(NumToString(score.v))

\* row.experienceAndCapability?.toString() ?? null   (restoreRows)
RestoreScoreToDb(score) ==
    IF score = JsNull THEN JsNull ELSE Str(NumToString(score.v))

parseScore(value) ==
    IF value = JsNull
    THEN JsNull
    ELSE LET num == IF value.t = "str" THEN ParseInt(value.v) ELSE value
         IN  IF num.t = "num" /\ num.v >= 0 /\ num.v <= 3 THEN num ELSE JsNull

mapMatrixRowRow(row) ==
    [id                      |-> row.id,
     matrixId                |-> row.matrix_id,
     requirementNumber       |-> row.requirement_number,
     requirements            |-> row.requirements,
     experienceAndCapability |-> parseScore(row.experience_and_capability),
     pastPerformance         |-> row.past_performance,
     comments                |-> row.comments,
     rowOrder                |-> row.row_order]

\* The column values bound by the INSERT of restoreRows.
RestoreValues(row) ==
    [id                         |-> row.id,
     matrix_id                  |-> row.matrixId,
     requirement_number         |-> row.requirementNumber,
     requirements               |-> row.requirements,
     experience_and_capability  |-> RestoreScoreToDb(row.experienceAndCapability),
     past_performance           |-> row.pastPerformance,
     comments                   |-> row.comments,
     row_order                  |-> row.rowOrder]

----------------------------------------------------------------------------
(* Sequence helpers *)

Range(s) == {s[i] : i \in 1..Len(s)}

\* [...new Set(xs)]: distinct elements in first-seen order.
RECURSIVE Unique(_)
Unique(xs) ==
    IF xs = <<>>
    THEN <<>>
    ELSE LET init == Unique(SubSeq(xs, 1, Len(xs) - 1))
             x    == xs[Len(xs)]
         IN  IF x \in Range(init) THEN init ELSE Append(init, x)

Max(S) == CHOOSE x \in S : \A y \in S : y <= x

----------------------------------------------------------------------------
(* Inputs of the store calls *)

\* requirement texts of rows: one the SQL and the JavaScript normalization agree
\* on, one with a leading tab, one with a non-ASCII capital
RequirementPool == {<<" ", "F", " ">>, <<"\t", "f">>, <<"E'">>}

\* requirement texts passed to deleteRowsByRequirement
DeleteArgPool == {<<" ", "F">>, <<"E'">>, <<" ">>}

ScorePool == {JsNull, Num(0), Num(3)}

PastPerformancePool == {<<"p">>}

MatrixNamePool == {<<"c">>}

\* CreateMatrixRowInput with requirementNumber, comments and rowOrder left undefined.
CreateMatrixRowInputs ==
    [matrixId                : {m.id : m \in matrices},
     requirements            : RequirementPool,
     experienceAndCapability : ScorePool,
     pastPerformance         : PastPerformancePool]

----------------------------------------------------------------------------
(* State after construction and initialize(): empty tables *)

NoCall ==
    [op |-> "none", arg |-> <<>>, ok |-> TRUE, result |-> <<>>, now |-> 0,
     rowsBefore |-> <<>>, matricesBefore |-> {}]

NoComparison == [rows |-> <<>>, matrices |-> <<>>]

NoDeleteInfo == [requirement |-> <<>>, companiesWithData |-> <<>>]

StoreInit ==
    /\ matrices = {}
    /\ matrix_rows = <<>>
    /\ clock = 1
    /\ nextMatrixId = 1
    /\ nextRowId = 1
    /\ call = NoCall
    /\ prev = NoCall
    /\ undoData = <<>>

Record(op, arg, ok, result) ==
    /\ call' = [op |-> op, arg |-> arg, ok |-> ok, result |-> result, now |-> clock,
                rowsBefore |-> matrix_rows, matricesBefore |-> matrices]
    /\ prev' = call
    /\ clock' = clock + 1

----------------------------------------------------------------------------
(* Matrix CRUD *)

createMatrix(name) ==
    /\ clock < MaxClock
    /\ nextMatrixId <= MaxMatrices
    /\ LET id  == nextMatrixId
           now == clock
           row == [id |-> id, name |-> name, created_at |-> now, updated_at |-> now]
       IN  /\ matrices' = matrices \cup {row}
           /\ nextMatrixId' = nextMatrixId + 1
           /\ Record("createMatrix", name, TRUE, row)
    /\ UNCHANGED <<matrix_rows, nextRowId>>

\* The DELETE FROM matrix_rows left out.
deleteMatrix_MatrixOnly(id) ==
    /\ clock < MaxClock
    /\ matrices' = {m \in matrices : m.id # id}
    /\ Record("deleteMatrix", id, TRUE, <<>>)
    /\ UNCHANGED <<matrix_rows, nextMatrixId, nextRowId>>

deleteMatrix(id) ==
    /\ clock < MaxClock
    /\ matrix_rows' = SelectSeq(matrix_rows, LAMBDA r : r.matrix_id # id)
    /\ matrices' = {m \in matrices : m.id # id}
    /\ Record("deleteMatrix", id, TRUE, <<>>)
    /\ UNCHANGED <<nextMatrixId, nextRowId>>

\* UPDATE matrices SET updated_at = now WHERE id IN ids
SetUpdatedAt(tbl, ids, now) ==
    {IF m.id \in ids THEN [m EXCEPT !.updated_at = now] ELSE m : m \in tbl}

updateMatrixTimestamp(tbl, matrixId, now) == SetUpdatedAt(tbl, {matrixId}, now)

----------------------------------------------------------------------------
(* Row CRUD *)

createMatrixRow(input) ==
    /\ clock < MaxClock
    /\ nextRowId <= MaxRows
    /\ LET id       == nextRowId
           orders   == {r.row_order : r \in {x \in Range(matrix_rows) : x.matrix_id = input.matrixId}}
           rowOrder == (IF orders = {} THEN -1 ELSE Max(orders)) + 1
           row      == [id                        |-> id,
                        matrix_id                 |-> input.matrixId,
                        requirement_number        |-> <<>>,
                        requirements              |-> input.requirements,
                        experience_and_capability |-> CreateScoreToDb(input.experienceAndCapability),
                        past_performance          |-> input.pastPerformance,
                        comments                  |-> <<>>,
                        row_order                 |-> rowOrder]
       IN  /\ matrix_rows' = Append(matrix_rows, row)
           /\ matrices' = updateMatrixTimestamp(matrices, input.matrixId, clock)
           /\ nextRowId' = nextRowId + 1
           /\ Record("createMatrixRow", input, TRUE,
                     [id                      |-> id,
                      matrixId                |-> input.matrixId,
                      requirementNumber       |-> <<>>,
                      requirements            |-> input.requirements,
                      experienceAndCapability |-> input.experienceAndCapability,
                      pastPerformance         |-> input.pastPerformance,
                      comments                |-> <<>>,
                      rowOrder                |-> rowOrder])
    /\ UNCHANGED nextMatrixId

----------------------------------------------------------------------------
(* Bulk operations: deleteRowsByRequirement and restoreRows                *)
(*                                                                         *)
(* Each call issues its SQL statements one after another, outside any      *)
(* transaction.  failAt numbers the statement that rejects (0: none);      *)
(* a rejected statement changes nothing itself, ends the call with an      *)
(* exception and leaves the effects of the statements before it in place.  *)

\* WHERE LOWER(TRIM(requirements)) LIKE ? || '%'
SqlRequirementMatches_Prefix(row, normalizedReq) ==
    LET col == SqlLower(SqlTrim(row.requirements))
    IN  /\ Len(col) >= Len(normalizedReq)
        /\ SubSeq(col, 1, Len(normalizedReq)) = normalizedReq

\* WHERE LOWER(TRIM(requirements)) = ?
SqlRequirementMatches(row, normalizedReq) ==
    SqlLower(SqlTrim(row.requirements)) = normalizedReq

\* updates[0] only, as updateRowOrders does
AffectedMatrixIds_First(rows) ==
    IF rows = <<>> THEN <<>> ELSE <<rows[1].matrix_id>>

\* [...new Set(rows.map((r) => r.matrix_id))]
AffectedMatrixIds(rows) == Unique([i \in 1..Len(rows) |-> rows[i].matrix_id])

\* The loop "for (const matrixId of affectedMatrixIds) UPDATE matrices ...",
\* whose first statement has number firstStmt.
TouchLoop(tbl, ids, now, firstStmt, failAt) ==
    LET failing == failAt \in firstStmt..(firstStmt + Len(ids) - 1)
        done    == IF failing THEN failAt - firstStmt ELSE Len(ids)
    IN  [matrices |-> SetUpdatedAt(tbl, {ids[i] : i \in 1..done}, now),
         ok       |-> ~failing]

EmptyDeleteResult == [deletedCount |-> 0, affectedMatrixIds |-> <<>>, deletedRows |-> <<>>]

\* Outcome of deleteRowsByRequirement(requirement) on the tables (tbl, mats).
DeleteOutcome(tbl, mats, requirement, now, failAt) ==
    LET normalizedReq == JsToLowerCase(JsTrim(requirement))
        rows          == SelectSeq(tbl, LAMBDA r : SqlRequirementMatches(r, normalizedReq))
        unchanged(ok) == [ok |-> ok, result |-> EmptyDeleteResult,
                          matrix_rows |-> tbl, matrices |-> mats]
    IN  IF failAt = 1 THEN unchanged(FALSE)
        ELSE IF Len(rows) = 0 THEN unchanged(TRUE)
        ELSE IF failAt = 2 THEN unchanged(FALSE)
        ELSE LET deletedRows       == [i \in 1..Len(rows) |-> mapMatrixRowRow(rows[i])]
                 remaining         == SelectSeq(tbl, LAMBDA r : ~SqlRequirementMatches(r, normalizedReq))
                 affectedMatrixIds == AffectedMatrixIds(rows)
                 touched           == TouchLoop(mats, affectedMatrixIds, now, 3, failAt)
             IN  [ok          |-> touched.ok,
                  result      |-> IF touched.ok
                                  THEN [deletedCount      |-> Len(rows),
                                        affectedMatrixIds |-> affectedMatrixIds,
                                        deletedRows       |-> deletedRows]
                                  ELSE EmptyDeleteResult,
                  matrix_rows |-> remaining,
                  matrices    |-> touched.matrices]

\* The loop "for (const row of rows) INSERT INTO matrix_rows ...": statement i
\* inserts rows[i]; it rejects when i = failAt or when the id is already a
\* primary key of the table.
RECURSIVE InsertLoop(_, _, _, _)
InsertLoop(tbl, rows, i, failAt) ==
    IF i > Len(rows)
    THEN [matrix_rows |-> tbl, ok |-> TRUE, inserted |-> Len(rows)]
    ELSE IF i = failAt \/ rows[i].id \in {r.id : r \in Range(tbl)}
         THEN [matrix_rows |-> tbl, ok |-> FALSE, inserted |-> i - 1]
         ELSE InsertLoop(Append(tbl, RestoreValues(rows[i])), rows, i + 1, failAt)

\* Outcome of restoreRows(rows) on the tables (tbl, mats).
RestoreOutcome(tbl, mats, rows, now, failAt) ==
    LET ins == InsertLoop(tbl, rows, 1, failAt)
    IN  IF ~ins.ok
        THEN [ok |-> FALSE, matrix_rows |-> ins.matrix_rows, matrices |-> mats]
        ELSE LET affectedMatrixIds == Unique([i \in 1..Len(rows) |-> rows[i].matrixId])
                 touched == TouchLoop(mats, affectedMatrixIds, now, Len(rows) + 1, failAt)
             IN  [ok |-> touched.ok, matrix_rows |-> ins.matrix_rows,
                  matrices |-> touched.matrices]

deleteRowsByRequirement(requirement, failAt) ==
    /\ clock < MaxClock
    /\ LET out == DeleteOutcome(matrix_rows, matrices, requirement, clock, failAt)
       IN  /\ matrix_rows' = out.matrix_rows
           /\ matrices' = out.matrices
           /\ Record("deleteRowsByRequirement", requirement, out.ok, out.result)
    /\ UNCHANGED <<nextMatrixId, nextRowId>>

restoreRows(rows, failAt) ==
    /\ clock < MaxClock
    /\ LET out == RestoreOutcome(matrix_rows, matrices, rows, clock, failAt)
       IN  /\ matrix_rows' = out.matrix_rows
           /\ matrices' = out.matrices
           /\ Record("restoreRows", rows, out.ok, <<>>)
    /\ UNCHANGED <<nextMatrixId, nextRowId>>

----------------------------------------------------------------------------
(* The store's caller: one call at a time (single actor)                   *)

CreateMatrix ==
    \E name \in MatrixNamePool :
        /\ createMatrix(name)
        /\ UNCHANGED <<undoData, cmpVars, libVars>>

DeleteMatrix ==
    \E id \in {m.id : m \in matrices} :
        /\ deleteMatrix(id)
        /\ UNCHANGED <<undoData, cmpVars, libVars>>

CreateMatrixRow ==
    \E input \in CreateMatrixRowInputs :
        /\ createMatrixRow(input)
        /\ UNCHANGED <<undoData, cmpVars, libVars>>

\* confirmDeleteRequirement: a delete that removed rows leaves them in the
\* toast's undoData; an empty or failed delete leaves the toast as it was.
DeleteRequirement(failAt) ==
    \E requirement \in DeleteArgPool :
        /\ deleteRowsByRequirement(requirement, failAt)
        /\ undoData' = IF call'.ok /\ call'.result.deletedCount > 0
                       THEN call'.result.deletedRows
                       ELSE undoData
        /\ UNCHANGED <<cmpVars, libVars>>

\* handleUndo: the toast is cleared, then its rows are restored.
Undo(failAt) ==
    /\ undoData # <<>>
    /\ restoreRows(undoData, failAt)
    /\ undoData' = <<>>
    /\ UNCHANGED <<cmpVars, libVars>>

CmpIdle ==
    /\ cmpInput = <<>>
    /\ cmpData = NoComparison
    /\ cmpInfo = NoDeleteInfo
    /\ cmpPc = "idle"

NoNumCall == [op |-> "none"]

NoXlsCall == [op |-> "none"]

NoResult == [t |-> "pending"]

NumIdle ==
    /\ numCall = NoNumCall
    /\ numOut = NoResult

XlsIdle ==
    /\ xlsCall = NoXlsCall
    /\ xlsOut = NoResult

NoExpCall == [op |-> "none"]

ExpIdle ==
    /\ expCall = NoExpCall
    /\ expOut = NoResult

\* The rows and the fields the editor saves in this model.
SaveRowIds == {"r1", "r2"}

SaveFields == {"requirements", "comments"}

\* The hook is rendered, nothing was edited: each field holds edit number 0.
SaveInit ==
    /\ pendingSaves = <<>>
    /\ timeoutRef = "null"
    /\ isMountedRef = TRUE
    /\ saveRuns = <<>>
    /\ savedRows = [id \in SaveRowIds |-> [f \in SaveFields |-> 0]]
    /\ saveLog = [queued |-> <<>>, passed |-> <<>>, reported |-> <<>>]

AuxIdle == ExpIdle /\ SaveInit

Init == StoreInit /\ CmpIdle /\ NumIdle /\ XlsIdle /\ AuxIdle

Next ==
    \/ CreateMatrix
    \/ DeleteMatrix
    \/ CreateMatrixRow
    \/ DeleteRequirement(0)
    \/ Undo(0)

Spec == Init /\ [][Next]_vars

\* The same caller over a store whose statements may reject.
FaultyDeleteRequirement == \E failAt \in 0..(2 + MaxMatrices) : DeleteRequirement(failAt)

FaultyUndo == \E failAt \in 0..(MaxRows + MaxMatrices) : Undo(failAt)

NextFault ==
    \/ CreateMatrix
    \/ DeleteMatrix
    \/ CreateMatrixRow
    \/ FaultyDeleteRequirement
    \/ FaultyUndo

SpecFault == Init /\ [][NextFault]_vars

----------------------------------------------------------------------------
(* Comparison aggregator: buildComparisonData *)

\* orderB - orderA
CompareOrder_Reversed(orderA, orderB) == orderB - orderA

\* the comparator's result, orderA - orderB
CompareOrder(orderA, orderB) == orderA - orderB

\* orderMap.get(key) ?? 0
OrderOf(orderMap, key) == IF key \in DOMAIN orderMap THEN orderMap[key] ELSE 0

\* Array.prototype.sort with the comparator above, as a stable insertion sort.
RECURSIVE InsertByOrder(_, _, _)
InsertByOrder(sorted, x, orderMap) ==
    IF sorted = <<>>
    THEN <<x>>
    ELSE LET last == sorted[Len(sorted)]
         IN  IF CompareOrder(OrderOf(orderMap, last.normalizedRequirement),
                             OrderOf(orderMap, x.normalizedRequirement)) > 0
             THEN Append(InsertByOrder(SubSeq(sorted, 1, Len(sorted) - 1), x, orderMap), last)
             ELSE Append(sorted, x)

RECURSIVE SortByOrder(_, _)
SortByOrder(rows, orderMap) ==
    IF rows = <<>>
    THEN <<>>
    ELSE InsertByOrder(SortByOrder(SubSeq(rows, 1, Len(rows) - 1), orderMap),
                       rows[Len(rows)], orderMap)

\* row.requirements.trim().toLowerCase() as display text
DisplayText_Folded(row) == JsToLowerCase(JsTrim(row.requirements))

\* requirement: row.requirements.trim()
DisplayText(row) == JsTrim(row.requirements)

\* if (!cells.has(id)) cells.set(id, cell)
SetCell_KeepFirst(cells, id, cell) == cells @@ (id :> cell)

\* compRow.cells.set(matrix.id, cell)
SetCell(cells, id, cell) == (id :> cell) @@ cells

CellOf(row) ==
    [score           |-> row.experienceAndCapability,
     pastPerformance |-> row.pastPerformance,
     comments        |-> row.comments,
     rowId           |-> row.id]

\* Index of the entry of requirementMap with the given key, 0 if there is none.
IndexOfKey(requirementMap, key) ==
    IF \E k \in 1..Len(requirementMap) : requirementMap[k].normalizedRequirement = key
    THEN CHOOSE k \in 1..Len(requirementMap) :
            /\ requirementMap[k].normalizedRequirement = key
            /\ \A l \in 1..(k - 1) : requirementMap[l].normalizedRequirement # key
    ELSE 0

\* Body of the inner loop for one row of one matrix.  st holds requirementMap
\* (entries in insertion order), orderMap and the counter order.
ScanRow(st, matrix, row) ==
    LET normalizedReq == normalizeRequirement(row.requirements)
    IN  IF normalizedReq = <<>>
        THEN st
        ELSE LET isNew == IndexOfKey(st.requirementMap, normalizedReq) = 0
                 st1   == IF isNew
                          THEN [requirementMap |->
                                    Append(st.requirementMap,
                                           [requirement           |-> DisplayText(row),
                                            normalizedRequirement |-> normalizedReq,
                                            cells                 |-> <<>>]),
                                orderMap |-> (normalizedReq :> st.order) @@ st.orderMap,
                                order    |-> st.order + 1]
                          ELSE st
                 k     == IndexOfKey(st1.requirementMap, normalizedReq)
             IN  [st1 EXCEPT !.requirementMap[k].cells = SetCell(@, matrix.id, CellOf(row))]

RECURSIVE ScanRows(_, _, _)
ScanRows(st, matrix, j) ==
    IF j > Len(matrix.rows)
    THEN st
    ELSE ScanRows(ScanRow(st, matrix, matrix.rows[j]), matrix, j + 1)

RECURSIVE ScanMatrices(_, _, _)
ScanMatrices(st, ms, i) ==
    IF i > Len(ms)
    THEN st
    ELSE ScanMatrices(ScanRows(st, ms[i], 1), ms, i + 1)

buildComparisonData(ms) ==
    LET st == ScanMatrices([requirementMap |-> <<>>, orderMap |-> <<>>, order |-> 0], ms, 1)
    IN  [rows     |-> SortByOrder(st.requirementMap, st.orderMap),
         matrices |-> [i \in 1..Len(ms) |-> [id |-> ms[i].id, name |-> ms[i].name]]]

----------------------------------------------------------------------------
(* Comparison aggregator: getRequirementDeleteInfo *)

\* cell.score || pastPerformance.trim() !== "" || comments.trim() !== ""
HasData_Truthy(cell) ==
    \/ (cell.score # JsNull /\ cell.score # Num(0))
    \/ JsTrim(cell.pastPerformance) # <<>>
    \/ JsTrim(cell.comments) # <<>>

HasData(cell) ==
    \/ cell.score # JsNull
    \/ JsTrim(cell.pastPerformance) # <<>>
    \/ JsTrim(cell.comments) # <<>>

\* The loop over comparisonData.matrices from index i on.
RECURSIVE CompaniesWithData(_, _, _)
CompaniesWithData(row, ms, i) ==
    IF i > Len(ms)
    THEN <<>>
    ELSE LET matrix == ms[i]
             rest   == CompaniesWithData(row, ms, i + 1)
         IN  IF matrix.id \in DOMAIN row.cells /\ HasData(row.cells[matrix.id])
             THEN <<[matrixId           |-> matrix.id,
                     matrixName         |-> matrix.name,
                     score              |-> row.cells[matrix.id].score,
                     hasComments        |-> JsTrim(row.cells[matrix.id].comments) # <<>>,
                     hasPastPerformance |-> JsTrim(row.cells[matrix.id].pastPerformance) # <<>>]>>
                  \o rest
             ELSE rest

getRequirementDeleteInfo(comparisonData, requirement) ==
    LET normalizedReq == normalizeRequirement(requirement)
        k == IndexOfKey(comparisonData.rows, normalizedReq)
    IN  [requirement       |-> requirement,
         companiesWithData |-> IF k # 0
                               THEN CompaniesWithData(comparisonData.rows[k],
                                                      comparisonData.matrices, 1)
                               ELSE <<>>]

----------------------------------------------------------------------------
(* The aggregator as a pure function: arguments and calls *)

\* requirement texts: two spellings of one key, another key, a blank text
CmpTextPool == {<<" ", "F">>, <<"f">>, <<"g">>, <<" ">>}

\* cell contents: nothing but white space; score 0 only; past performance
\* only; comments only
CmpCellPool ==
    {[experienceAndCapability |-> JsNull, pastPerformance |-> <<" ">>, comments |-> <<>>],
     [experienceAndCapability |-> Num(0), pastPerformance |-> <<>>,    comments |-> <<>>],
     [experienceAndCapability |-> JsNull, pastPerformance |-> <<"p">>, comments |-> <<" ">>],
     [experienceAndCapability |-> JsNull, pastPerformance |-> <<>>,    comments |-> <<"c">>]}

\* texts passed to getRequirementDeleteInfo
CmpAskPool == {<<"F", " ">>, <<"g">>}

\* Sum of the first i entries of a sequence of numbers.
RECURSIVE SumUpTo(_, _)
SumUpTo(counts, i) == IF i = 0 THEN 0 ELSE counts[i] + SumUpTo(counts, i - 1)

\* The list of Len(counts) matrices where matrix i holds counts[i] rows and the
\* n-th row of the whole scan has text texts[n] and cell contents cells[n].
CmpInputOf(counts, texts, cells) ==
    [i \in 1..Len(counts) |->
        [id   |-> i,
         name |-> <<"c">>,
         rows |-> [j \in 1..counts[i] |->
                     LET n == SumUpTo(counts, i - 1) + j
                     IN  [id                      |-> <<i, j>>,
                          matrixId                |-> i,
                          requirements            |-> texts[n],
                          experienceAndCapability |-> cells[n].experienceAndCapability,
                          pastPerformance         |-> cells[n].pastPerformance,
                          comments                |-> cells[n].comments]]]]

\* Any list of at most MaxCmpMatrices matrices holding at most MaxCmpRows rows.
CmpInit ==
    /\ \E k \in 0..MaxCmpMatrices :
         \E counts \in [1..k -> 0..MaxCmpRows] :
            /\ SumUpTo(counts, k) <= MaxCmpRows
            /\ \E texts \in [1..SumUpTo(counts, k) -> CmpTextPool] :
                 \E cells \in [1..SumUpTo(counts, k) -> CmpCellPool] :
                    cmpInput = CmpInputOf(counts, texts, cells)
    /\ cmpData = NoComparison
    /\ cmpInfo = NoDeleteInfo
    /\ cmpPc = "input"

BuildComparisonData ==
    /\ cmpPc = "input"
    /\ cmpData' = buildComparisonData(cmpInput)
    /\ cmpPc' = "built"
    /\ UNCHANGED <<cmpInput, cmpInfo, storeVars, libVars>>

GetRequirementDeleteInfo ==
    /\ cmpPc = "built"
    /\ \E requirement \in CmpAskPool :
          cmpInfo' = getRequirementDeleteInfo(cmpData, requirement)
    /\ cmpPc' = "asked"
    /\ UNCHANGED <<cmpInput, cmpData, storeVars, libVars>>

InitCmp == StoreInit /\ CmpInit /\ NumIdle /\ XlsIdle /\ AuxIdle

NextCmp ==
    \/ BuildComparisonData
    \/ GetRequirementDeleteInfo

SpecCmp == InitCmp /\ [][NextCmp]_vars

----------------------------------------------------------------------------
(* Properties of the bulk mutation ledger *)

RowSet(tbl) == Range(tbl)

\* The rows a call removed from the table.
Removed == RowSet(call.rowsBefore) \ RowSet(matrix_rows)

\* Rows of tbl the aggregator groups under the key of requirement text t.
GroupedUnder(tbl, t) ==
    {r \in RowSet(tbl) : normalizeRequirement(r.requirements) = normalizeRequirement(t)}

\* The matrices table after the updated_at of exactly the owners is set to now.
Bumped(before, owners, now) ==
    {[m EXCEPT !.updated_at = IF m.id \in owners THEN now ELSE @] : m \in before}

IsUndoOfLastDelete ==
    /\ call.op = "restoreRows"
    /\ prev.op = "deleteRowsByRequirement"
    /\ prev.ok
    /\ call.arg = prev.result.deletedRows

\* C1: a delete immediately followed by restoreRows of its deletedRows leaves
\* the persisted rows exactly as they were before the delete: same ids, same
\* owning matrices, same column values, same display order.
C1_DeleteThenRestoreIsIdentity ==
    IsUndoOfLastDelete =>
        /\ call.ok
        /\ RowSet(matrix_rows) = RowSet(prev.rowsBefore)
        /\ Len(matrix_rows) = Len(prev.rowsBefore)

\* C1 witness: an undo that put back two rows owned by different matrices,
\* one of them rated 0.
C1_Witness ==
    /\ IsUndoOfLastDelete
    /\ Len(call.arg) = 2
    /\ call.arg[1].matrixId # call.arg[2].matrixId
    /\ \E i \in 1..2 : call.arg[i].experienceAndCapability = Num(0)

\* C2: the rows a delete removes are exactly the rows the aggregator groups
\* under the requirement (normalizeRequirement of the row text equals
\* normalizeRequirement of the argument).
C2_DeleteRemovesExactlyTheGroup ==
    (call.op = "deleteRowsByRequirement" /\ call.ok) =>
        Removed = GroupedUnder(call.rowsBefore, call.arg)

\* C3: a bulk call that fails leaves the store exactly as it was before the call.
C3_FailedCallChangesNothing ==
    (call.op \in {"deleteRowsByRequirement", "restoreRows"} /\ ~call.ok) =>
        /\ matrix_rows = call.rowsBefore
        /\ matrices = call.matricesBefore

\* C4: a delete that returns bumps updated_at of exactly the matrices that owned
\* a removed row and returns exactly those ids, each once; a restore that
\* returns bumps exactly the matrices that own one of the given rows.
C4_TimestampsOfExactlyTheOwners ==
    /\ (call.op = "deleteRowsByRequirement" /\ call.ok) =>
          LET owners == {r.matrix_id : r \in Removed}
              ids    == call.result.affectedMatrixIds
          IN  /\ Range(ids) = owners
              /\ Len(ids) = Cardinality(owners)
              /\ matrices = Bumped(call.matricesBefore, owners, call.now)
    /\ (call.op = "restoreRows" /\ call.ok) =>
          LET owners == {r.matrixId : r \in Range(call.arg)}
          IN  matrices = Bumped(call.matricesBefore, owners, call.now)

\* C4 witness: a delete removed rows of two matrices and the restore after it
\* returned, in a store where the bump changed a timestamp.
C4_Witness ==
    /\ IsUndoOfLastDelete
    /\ call.ok
    /\ Len(prev.result.affectedMatrixIds) = 2
    /\ matrices # call.matricesBefore

\* C5: a delete whose text matches no persisted row returns normally with
\* deletedCount 0 and empty lists and changes neither rows nor timestamps.
C5_NoMatchIsNoOp ==
    (call.op = "deleteRowsByRequirement" /\ GroupedUnder(call.rowsBefore, call.arg) = {}) =>
        /\ call.ok
        /\ call.result = EmptyDeleteResult
        /\ matrix_rows = call.rowsBefore
        /\ matrices = call.matricesBefore

\* C5 witness: such a delete on a store that holds rows.
C5_Witness ==
    /\ call.op = "deleteRowsByRequirement"
    /\ GroupedUnder(call.rowsBefore, call.arg) = {}
    /\ call.rowsBefore # <<>>
    /\ call.result.deletedCount = 0

----------------------------------------------------------------------------
(* Properties of the comparison aggregator *)

\* Indices of the characters of t that are not white space.
NonBlank(t) == {i \in 1..Len(t) : t[i] \notin JsWhiteSpace}

\* t without leading and trailing white space, original letter case.
Trimmed(t) ==
    IF NonBlank(t) = {}
    THEN <<>>
    ELSE SubSeq(t, CHOOSE i \in NonBlank(t) : \A k \in NonBlank(t) : i <= k, Max(NonBlank(t)))

\* The normalized key of a requirement text: trimmed, then lower case.
KeyOf(t) == [i \in 1..Len(Trimmed(t)) |-> JsLowerChar(Trimmed(t)[i])]

\* Positions <<matrix index, row index>> of the rows of the argument.
CmpPos == UNION {{<<i, j>> : j \in 1..Len(cmpInput[i].rows)} : i \in 1..Len(cmpInput)}

RowAt(p) == cmpInput[p[1]].rows[p[2]]

\* p comes before q in the scan: matrices in list order, rows in row order.
ScannedBefore(p, q) == p[1] < q[1] \/ (p[1] = q[1] /\ p[2] < q[2])

PosWithKey(key) == {p \in CmpPos : KeyOf(RowAt(p).requirements) = key}

FirstPos(key) ==
    CHOOSE p \in PosWithKey(key) : \A q \in PosWithKey(key) : q = p \/ ScannedBefore(p, q)

InputKeys == {KeyOf(RowAt(p).requirements) : p \in CmpPos} \ {<<>>}

Built == cmpPc \in {"built", "asked"}

OutKey(a) == cmpData.rows[a].normalizedRequirement

\* C6: the output has exactly one row per distinct non-empty normalized key
\* of the input, and rows with an empty normalized text contribute nothing,
\* neither a row nor a cell.
C6_OneRowPerKey ==
    Built =>
        /\ \A a, b \in 1..Len(cmpData.rows) : a # b => OutKey(a) # OutKey(b)
        /\ {OutKey(a) : a \in 1..Len(cmpData.rows)} = InputKeys
        /\ \A a \in 1..Len(cmpData.rows) :
             \A m \in DOMAIN cmpData.rows[a].cells :
                /\ cmpData.rows[a].cells[m].rowId \in CmpPos
                /\ KeyOf(RowAt(cmpData.rows[a].cells[m].rowId).requirements) # <<>>

\* C6 witness: two rows with different spellings of one key, in different
\* matrices, were merged into one output row.
C6_Witness ==
    /\ Built
    /\ Len(cmpData.rows) = 1
    /\ \E p, q \in CmpPos :
          /\ p[1] # q[1]
          /\ RowAt(p).requirements # RowAt(q).requirements
          /\ KeyOf(RowAt(p).requirements) = KeyOf(RowAt(q).requirements)

C8_DisplayTextOfFirstOccurrence ==
    Built =>
        \A a \in 1..Len(cmpData.rows) :
            /\ OutKey(a) \in InputKeys
            /\ cmpData.rows[a].requirement = Trimmed(RowAt(FirstPos(OutKey(a))).requirements)

\* C8 witness: the first occurrence is " F" and a later row spells the key "f";
\* the display text is "F".
C8_Witness ==
    /\ Built
    /\ \E a \in 1..Len(cmpData.rows) :
          /\ cmpData.rows[a].requirement = <<"F">>
          /\ \E q \in PosWithKey(OutKey(a)) : RowAt(q).requirements = <<"f">>

\* C9: an output row has a cell for a matrix exactly when the matrix has a row
\* with that key, and the cell carries score, past performance, comments and
\* row id of the last such row of the matrix.
C9_CellOfLastRowPerMatrix ==
    Built =>
        \A a \in 1..Len(cmpData.rows) :
            /\ DOMAIN cmpData.rows[a].cells \subseteq {cmpInput[i].id : i \in 1..Len(cmpInput)}
            /\ \A i \in 1..Len(cmpInput) :
                 LET m    == cmpInput[i]
                     with == {j \in 1..Len(m.rows) : KeyOf(m.rows[j].requirements) = OutKey(a)}
                 IN  /\ (m.id \in DOMAIN cmpData.rows[a].cells) <=> (with # {})
                     /\ with # {} =>
                          LET last == m.rows[Max(with)]
                          IN  cmpData.rows[a].cells[m.id] =
                                [score           |-> last.experienceAndCapability,
                                 pastPerformance |-> last.pastPerformance,
                                 comments        |-> last.comments,
                                 rowId           |-> last.id]

\* C9 witness: one matrix holds two rows with the same key and different contents.
C9_Witness ==
    /\ Built
    /\ \E i \in 1..Len(cmpInput) :
          /\ Len(cmpInput[i].rows) = 2
          /\ KeyOf(cmpInput[i].rows[1].requirements) = KeyOf(cmpInput[i].rows[2].requirements)
          /\ KeyOf(cmpInput[i].rows[1].requirements) # <<>>
          /\ cmpInput[i].rows[1].experienceAndCapability # cmpInput[i].rows[2].experienceAndCapability

\* A cell with a score, or past performance or comments that are not blank.
CellCarriesData(cell) ==
    \/ cell.score # JsNull
    \/ NonBlank(cell.pastPerformance) # {}
    \/ NonBlank(cell.comments) # {}

\* Matrices of the comparison whose cell for the key carries data.
MatricesWithData(key) ==
    {cmpData.matrices[i].id : i \in
        {i \in 1..Len(cmpData.matrices) :
            \E a \in 1..Len(cmpData.rows) :
                /\ OutKey(a) = key
                /\ cmpData.matrices[i].id \in DOMAIN cmpData.rows[a].cells
                /\ CellCarriesData(cmpData.rows[a].cells[cmpData.matrices[i].id])}}

\* C10: getRequirementDeleteInfo reports exactly the participating matrices
\* whose cell for the normalized text carries data, each once; none when the
\* text has no row.
C10_ReportsExactlyCellsWithData ==
    cmpPc = "asked" =>
        /\ {e.matrixId : e \in Range(cmpInfo.companiesWithData)}
              = MatricesWithData(KeyOf(cmpInfo.requirement))
        /\ Len(cmpInfo.companiesWithData)
              = Cardinality(MatricesWithData(KeyOf(cmpInfo.requirement)))

\* C10 witness: for the asked text one matrix is reported for a score of 0 and
\* another has a cell with a blank past performance only and is not reported.
C10_Witness ==
    /\ cmpPc = "asked"
    /\ \E a \in 1..Len(cmpData.rows) :
          /\ OutKey(a) = KeyOf(cmpInfo.requirement)
          /\ \E m, n \in DOMAIN cmpData.rows[a].cells :
                /\ m \in MatricesWithData(OutKey(a))
                /\ cmpData.rows[a].cells[m].score = Num(0)
                /\ n \notin MatricesWithData(OutKey(a))
                /\ cmpData.rows[a].cells[n].pastPerformance = <<" ">>

----------------------------------------------------------------------------
(* Requirement numbers: requirementNumber.ts                               *)
(* A requirement number is text: a sequence of one-character strings.      *)

MaxNumLen == 3

\* The characters a requirement-number cell is given here: two digits, the
\* separator, and a letter.
NumChars == {"0", "1", ".", "a"}

IsDigit(c) == c \in Range(Digits)

DigitValue(c) == CHOOSE d \in 0..9 : Digits[d + 1] = c

\* The number a run of decimal digits denotes; no digits denote 0.
RECURSIVE DecimalValue(_)
DecimalValue(s) ==
    IF s = <<>>
    THEN 0
    ELSE 10 * DecimalValue(SubSeq(s, 1, Len(s) - 1)) + DigitValue(s[Len(s)])

\* String(n) for a non-negative integer.
RECURSIVE NatToText(_)
NatToText(n) ==
    IF n < 10
    THEN <<Digits[n + 1]>>
    ELSE NatToText(n \div 10) \o <<Digits[(n % 10) + 1]>>

\* Numbers are doubles.  The integers that are not exact any more are
\* modelled at the powers of ten from 10^16 on: Pow10(e) is 10^e, a double
\* whose neighbours are more than 1 apart.
FirstInexactPowerOfTen == 16

\* Number.prototype.toString writes 10^21 and above with an exponent.
FirstExponentPowerOfTen == 21

Pow10(e) == [t |-> "pow10", e |-> e]

\* A number too large to be told apart from its neighbours: only its sign is
\* kept.
Big(sign) == [t |-> "big", sign |-> sign]

\* "1" followed by at least 16 zeros.
IsPowerOfTenText(s) ==
    /\ Len(s) > FirstInexactPowerOfTen
    /\ s[1] = "1"
    /\ \A i \in 2..Len(s) : s[i] = "0"

\* "1e+" followed by the digits of an exponent of at least 16.
IsExponentText(s) ==
    /\ Len(s) > 3
    /\ SubSeq(s, 1, 3) = <<"1", "e", "+">>
    /\ \A i \in 4..Len(s) : IsDigit(s[i])
    /\ DecimalValue(SubSeq(s, 4, Len(s))) >= FirstInexactPowerOfTen

\* The value of a run of digits as a double.
DigitsToNumber(s) ==
    IF IsPowerOfTenText(s) THEN Pow10(Len(s) - 1) ELSE Num(DecimalValue(s))

\* String(v) for a number value.
JsString(v) ==
    IF v = NaN
    THEN <<"N", "a", "N">>
    ELSE IF v.t = "pow10"
         THEN IF v.e < FirstExponentPowerOfTen
              THEN <<"1">> \o [i \in 1..v.e |-> "0"]
              ELSE <<"1", "e", "+">> \o NatToText(v.e)
         ELSE NatToText(v.v)

\* Number(s) on text without white space: digits denote their value, the
\* empty string is 0, "1e+21" is 10^21, anything else is NaN.
JsNumber(s) ==
    IF \A i \in 1..Len(s) : IsDigit(s[i])
    THEN DigitsToNumber(s)
    ELSE IF IsExponentText(s)
         THEN Pow10(DecimalValue(SubSeq(s, 4, Len(s))))
         ELSE NaN

\* The longest prefix of s made of digits.
RECURSIVE DigitPrefix(_)
DigitPrefix(s) ==
    IF s # <<>> /\ IsDigit(Head(s)) THEN <<Head(s)>> \o DigitPrefix(Tail(s)) ELSE <<>>

\* parseInt(s, 10) on text without white space or sign.
JsParseInt(s) ==
    IF DigitPrefix(s) = <<>> THEN NaN ELSE DigitsToNumber(DigitPrefix(s))

\* x + 1: from 10^16 on the sum rounds back to x.
JsPlusOne(x) ==
    IF x = NaN THEN NaN ELSE IF x.t = "pow10" THEN x ELSE Num(x.v + 1)

\* x - y
JsMinus(x, y) ==
    IF x = NaN \/ y = NaN
    THEN NaN
    ELSE IF x.t = "num" /\ y.t = "num"
         THEN Num(x.v - y.v)
         ELSE IF x = y
              THEN Num(0)
              ELSE IF x.t = "pow10" /\ (y.t = "num" \/ x.e > y.e)
                   THEN Big(1)
                   ELSE Big(-1)

\* x !== y on numbers: NaN differs from everything, itself included.
JsStrictNotEqual(x, y) == x = NaN \/ y = NaN \/ x # y

\* s.split('.')
RECURSIVE SplitDot(_)
SplitDot(s) ==
    IF \A i \in 1..Len(s) : s[i] # "."
    THEN <<s>>
    ELSE LET i == CHOOSE k \in 1..Len(s) : s[k] = "." /\ \A j \in 1..(k - 1) : s[j] # "."
         IN  <<SubSeq(s, 1, i - 1)>> \o SplitDot(SubSeq(s, i + 1, Len(s)))

\* parts.join('.')
RECURSIVE JoinDot(_)
JoinDot(parts) ==
    IF parts = <<>>
    THEN <<>>
    ELSE IF Len(parts) = 1
         THEN parts[1]
         ELSE parts[1] \o <<".">> \o JoinDot(Tail(parts))

\* s.startsWith(prefix)
StartsWith(s, prefix) ==
    Len(prefix) <= Len(s) /\ SubSeq(s, 1, Len(prefix)) = prefix

\* /^\d+(\.\d+)*$/.test(value), the empty string accepted before the test
isValidRequirementNumber(value) ==
    IF value = <<>>
    THEN TRUE
    ELSE \A i \in 1..Len(SplitDot(value)) :
            /\ SplitDot(value)[i] # <<>>
            /\ \A j \in 1..Len(SplitDot(value)[i]) : IsDigit(SplitDot(value)[i][j])

\* (reqNum.match(/\./g) || []).length
getDepth(reqNum) ==
    IF reqNum = <<>> THEN 0 ELSE Cardinality({i \in 1..Len(reqNum) : reqNum[i] = "."})

\* Math.min in place of Math.max
CompareLoopBound_Min(aParts, bParts) ==
    IF Len(aParts) <= Len(bParts) THEN Len(aParts) ELSE Len(bParts)

\* Math.max(aParts.length, bParts.length)
CompareLoopBound(aParts, bParts) == Max({Len(aParts), Len(bParts)})

\* parts[i] ?? 0, the index counted from 1
PartOrZero(parts, i) == IF i <= Len(parts) THEN parts[i] ELSE Num(0)

\* The for loop of compareRequirementNumbers from index i on.
RECURSIVE CompareFrom(_, _, _)
CompareFrom(aParts, bParts, i) ==
    IF i > CompareLoopBound(aParts, bParts)
    THEN Num(0)
    ELSE IF JsStrictNotEqual(PartOrZero(aParts, i), PartOrZero(bParts, i))
         THEN JsMinus(PartOrZero(aParts, i), PartOrZero(bParts, i))
         ELSE CompareFrom(aParts, bParts, i + 1)

\* s.split('.').map(Number)
NumberParts(s) == [i \in 1..Len(SplitDot(s)) |-> JsNumber(SplitDot(s)[i])]

\* The empty-string tests left out: '' splits to [''] and counts as 0.
compareRequirementNumbers_NoEmptyRule(a, b) ==
    CompareFrom(NumberParts(a), NumberParts(b), 1)

compareRequirementNumbers(a, b) ==
    IF a = <<>> /\ b = <<>>
    THEN Num(0)
    ELSE IF a = <<>>
         THEN Num(1)
         ELSE IF b = <<>>
              THEN Num(-1)
              ELSE CompareFrom(NumberParts(a), NumberParts(b), 1)

\* parts with the last one dropped
DropLast(parts) == SubSeq(parts, 1, Len(parts) - 1)

\* parts[parts.length - 1] = String(parseInt(parts[parts.length - 1], 10) + 1)
IncrementLast(parts) ==
    [parts EXCEPT ![Len(parts)] = JsString(JsPlusOne(JsParseInt(parts[Len(parts)])))]

\* The increment left out: the parent number.
outdentNumber_NoIncrement(current) ==
    IF current = <<>>
    THEN <<"1">>
    ELSE IF Len(SplitDot(current)) <= 1
         THEN current
         ELSE JoinDot(DropLast(SplitDot(current)))

outdentNumber(current) ==
    IF current = <<>>
    THEN <<"1">>
    ELSE IF Len(SplitDot(current)) <= 1
         THEN current
         ELSE JoinDot(IncrementLast(DropLast(SplitDot(current))))

isChildOf(child, parent) ==
    IF child = <<>> \/ parent = <<>>
    THEN FALSE
    ELSE StartsWith(child, parent \o <<".">>)

----------------------------------------------------------------------------
(* Calls of the numbering functions *)

\* Any text of at most MaxNumLen characters.
NumTexts == UNION {[1..n -> NumChars] : n \in 0..MaxNumLen}

ValidNumTexts == {s \in NumTexts : isValidRequirementNumber(s)}

Returned(v) == [t |-> "returned", v |-> v]

\* Any text is an argument; the third argument of a comparison is drawn when
\* the first two are valid numbers.
NumInit ==
    /\ \/ \E a \in ValidNumTexts, b \in ValidNumTexts, c \in ValidNumTexts :
            numCall = [op |-> "compareRequirementNumbers", a |-> a, b |-> b, c |-> c]
       \/ \E a \in NumTexts, b \in NumTexts :
            /\ a \notin ValidNumTexts \/ b \notin ValidNumTexts
            /\ numCall = [op |-> "compareRequirementNumbers", a |-> a, b |-> b, c |-> <<>>]
       \/ \E a \in NumTexts, b \in NumTexts :
            numCall = [op |-> "isChildOf", a |-> a, b |-> b, c |-> <<>>]
       \/ \E a \in NumTexts, op \in {"getDepth", "outdentNumber"} :
            numCall = [op |-> op, a |-> a, b |-> <<>>, c |-> <<>>]
    /\ numOut = NoResult

\* The comparator as a sort of a, b and c asks it: once per ordered pair.
CompareRequirementNumbers ==
    /\ numCall.op = "compareRequirementNumbers"
    /\ numOut = NoResult
    /\ numOut' = Returned([ab |-> compareRequirementNumbers(numCall.a, numCall.b),
                           ba |-> compareRequirementNumbers(numCall.b, numCall.a),
                           bc |-> compareRequirementNumbers(numCall.b, numCall.c),
                           cb |-> compareRequirementNumbers(numCall.c, numCall.b),
                           ac |-> compareRequirementNumbers(numCall.a, numCall.c),
                           ca |-> compareRequirementNumbers(numCall.c, numCall.a)])
    /\ UNCHANGED <<numCall, storeVars, cmpVars, xlsVars, auxVars>>

GetDepth ==
    /\ numCall.op = "getDepth"
    /\ numOut = NoResult
    /\ numOut' = Returned(getDepth(numCall.a))
    /\ UNCHANGED <<numCall, storeVars, cmpVars, xlsVars, auxVars>>

OutdentNumber ==
    /\ numCall.op = "outdentNumber"
    /\ numOut = NoResult
    /\ numOut' = Returned(outdentNumber(numCall.a))
    /\ UNCHANGED <<numCall, storeVars, cmpVars, xlsVars, auxVars>>

IsChildOf ==
    /\ numCall.op = "isChildOf"
    /\ numOut = NoResult
    /\ numOut' = Returned(isChildOf(numCall.a, numCall.b))
    /\ UNCHANGED <<numCall, storeVars, cmpVars, xlsVars, auxVars>>

InitNum == StoreInit /\ CmpIdle /\ NumInit /\ XlsIdle /\ AuxIdle

NextNum ==
    \/ CompareRequirementNumbers
    \/ GetDepth
    \/ OutdentNumber
    \/ IsChildOf

SpecNum == InitNum /\ [][NextNum]_vars

----------------------------------------------------------------------------
(* Properties of the requirement numbering *)

NumReturned(op) == numCall.op = op /\ numOut # NoResult

\* -1, 0 or 1 for a number, "NaN" for NaN.
SignOf(x) == IF x = NaN THEN "NaN" ELSE IF x.v < 0 THEN -1 ELSE IF x.v > 0 THEN 1 ELSE 0

\* The integers the segments of a valid non-empty number denote.
SegmentValues(s) == [i \in 1..Len(SplitDot(s)) |-> DecimalValue(SplitDot(s)[i])]

\* The i-th segment value, 0 past the last segment.
SegmentAt(s, i) == IF i <= Len(SegmentValues(s)) THEN SegmentValues(s)[i] ELSE 0

SegmentCount(s, t) ==
    IF Len(SegmentValues(s)) >= Len(SegmentValues(t))
    THEN Len(SegmentValues(s))
    ELSE Len(SegmentValues(t))

\* s comes before t segment by segment.
SegmentwiseLess(s, t) ==
    \E i \in 1..SegmentCount(s, t) :
        /\ SegmentAt(s, i) < SegmentAt(t, i)
        /\ \A j \in 1..(i - 1) : SegmentAt(s, j) = SegmentAt(t, j)

\* s and t denote the same segments once missing trailing segments count as 0.
SegmentwiseSame(s, t) ==
    \A i \in 1..SegmentCount(s, t) : SegmentAt(s, i) = SegmentAt(t, i)

\* The sign segment-wise numeric comparison gives two valid non-empty numbers.
SegmentwiseSign(s, t) ==
    IF SegmentwiseLess(s, t) THEN -1 ELSE IF SegmentwiseLess(t, s) THEN 1 ELSE 0

AllValid == \A s \in {numCall.a, numCall.b, numCall.c} : isValidRequirementNumber(s)

\* What a total order asks of the six answers, the case of answer 0 aside.
OrdersThreeNumbers ==
    /\ \A r \in {numOut.v.ab, numOut.v.ba, numOut.v.bc, numOut.v.cb, numOut.v.ac, numOut.v.ca} :
          SignOf(r) \in {-1, 0, 1}
    /\ SignOf(numOut.v.ab) = 0 - SignOf(numOut.v.ba)
    /\ SignOf(numOut.v.bc) = 0 - SignOf(numOut.v.cb)
    /\ SignOf(numOut.v.ac) = 0 - SignOf(numOut.v.ca)
    /\ (SignOf(numOut.v.ab) <= 0 /\ SignOf(numOut.v.bc) <= 0) => SignOf(numOut.v.ac) <= 0
    /\ (numCall.a # <<>> /\ numCall.b # <<>>)
          => SignOf(numOut.v.ab) = SegmentwiseSign(numCall.a, numCall.b)

\* C11 as stated: on valid numbers the comparator agrees with segment-wise
\* numeric comparison, answers of opposite sign for swapped arguments, is
\* transitive and total, and answers 0 only for two equal strings.
C11_TotalOrderOnValidNumbers ==
    (NumReturned("compareRequirementNumbers") /\ AllValid)
        => /\ OrdersThreeNumbers
           /\ SignOf(numOut.v.ab) = 0 => numCall.a = numCall.b

\* C11 amended: on valid numbers the comparator agrees with segment-wise
\* numeric comparison, answers of opposite sign for swapped arguments, is
\* transitive and total, and answers 0 exactly for two numbers that are both
\* empty or denote the same segment values once missing trailing segments
\* count as 0.
C11_TotalPreorderOnSegmentValues ==
    (NumReturned("compareRequirementNumbers") /\ AllValid)
        => /\ OrdersThreeNumbers
           /\ SignOf(numOut.v.ab) = 0
                <=> \/ numCall.a = <<>> /\ numCall.b = <<>>
                    \/ /\ numCall.a # <<>>
                       /\ numCall.b # <<>>
                       /\ SegmentwiseSame(numCall.a, numCall.b)

\* Three valid numbers, a before b before c, a one segment shorter than b.
C11_Witness ==
    /\ NumReturned("compareRequirementNumbers")
    /\ AllValid
    /\ numCall.a # <<>> /\ numCall.b # <<>> /\ numCall.c # <<>>
    /\ Len(SplitDot(numCall.a)) < Len(SplitDot(numCall.b))
    /\ SignOf(numOut.v.ab) = -1
    /\ SignOf(numOut.v.bc) = -1
    /\ SignOf(numOut.v.ac) = -1

\* C12: the empty string compares after every non-empty valid number, before
\* none, and equal to itself.
C12_EmptySortsLast ==
    (NumReturned("compareRequirementNumbers") /\ AllValid)
        => /\ (numCall.a = <<>> /\ numCall.b # <<>>)
                => (SignOf(numOut.v.ab) = 1 /\ SignOf(numOut.v.ba) = -1)
           /\ (numCall.a = <<>> /\ numCall.b = <<>>) => SignOf(numOut.v.ab) = 0

C12_Witness ==
    /\ NumReturned("compareRequirementNumbers")
    /\ AllValid
    /\ numCall.a = <<>>
    /\ numCall.b # <<>>
    /\ SignOf(numOut.v.ab) = 1

\* The text with every '.' counted: 0 dots is depth 0.
DotCount(s) == Cardinality({i \in 1..Len(s) : s[i] = "."})

\* A valid number of two or more segments with its last segment removed and
\* the one before it incremented.
LastRemovedAndIncremented(s) ==
    JoinDot([i \in 1..(Len(SplitDot(s)) - 1) |->
                IF i = Len(SplitDot(s)) - 1
                THEN NatToText(SegmentValues(s)[i] + 1)
                ELSE SplitDot(s)[i]])

\* C13 as stated: outdent of a valid number of two or more segments removes
\* the last segment and increments the new last one, and outdent of every
\* text at depth 0 returns it unchanged.
C13_OutdentContract ==
    NumReturned("outdentNumber")
        => /\ (isValidRequirementNumber(numCall.a) /\ DotCount(numCall.a) >= 1)
                => numOut.v = LastRemovedAndIncremented(numCall.a)
           /\ DotCount(numCall.a) = 0 => numOut.v = numCall.a

\* C13 amended: outdent of a valid number of two or more segments removes the
\* last segment and increments the new last one, outdent of every non-empty
\* text at depth 0 returns it unchanged, and outdent of the empty string is "1".
C13_OutdentContractNonEmpty ==
    NumReturned("outdentNumber")
        => /\ (isValidRequirementNumber(numCall.a) /\ DotCount(numCall.a) >= 1)
                => numOut.v = LastRemovedAndIncremented(numCall.a)
           /\ (DotCount(numCall.a) = 0 /\ numCall.a # <<>>) => numOut.v = numCall.a
           /\ numCall.a = <<>> => numOut.v = <<"1">>

\* A valid number of two segments was outdented to a one-segment number.
C13_Witness ==
    /\ NumReturned("outdentNumber")
    /\ isValidRequirementNumber(numCall.a)
    /\ DotCount(numCall.a) = 1
    /\ DotCount(numOut.v) = 0
    /\ numOut.v # <<>>

\* C14: for a text outside the grammar, depth is 0, the comparator places it
\* after every valid non-empty number, and isChildOf is false with it as
\* child or as parent.
C14_InvalidDegradesGracefully ==
    /\ (NumReturned("getDepth") /\ ~isValidRequirementNumber(numCall.a))
          => numOut.v = 0
    /\ (/\ NumReturned("compareRequirementNumbers")
        /\ ~isValidRequirementNumber(numCall.a)
        /\ isValidRequirementNumber(numCall.b)
        /\ numCall.b # <<>>)
          => (SignOf(numOut.v.ab) = 1 /\ SignOf(numOut.v.ba) = -1)
    /\ (/\ NumReturned("isChildOf")
        /\ ~(isValidRequirementNumber(numCall.a) /\ isValidRequirementNumber(numCall.b)))
          => numOut.v = FALSE

----------------------------------------------------------------------------
(* Spreadsheet importer: values, cells and sheets                          *)

MaxScoreLen == 2

MaxSheetRows == 3

MaxFiles == 2

MaxSheets == 2

\* Math.min(range.e.r, 29) in findHeaderInfo
HeaderScanLastRow == 29

\* Math.min(range.e.r, 19) in extractCompanyName
CompanyScanLastRow == 19

\* Math.min(range.e.c, 3) in extractCompanyName
CompanyScanLastCol == 3

JsUndefined == [t |-> "undefined"]

\* A number with one decimal place: k stands for k / 10.
Tenths(k) == [t |-> "number", tenths |-> k]

Bool(b) == [t |-> "boolean", v |-> b]

\* Math.round(k / 10): the nearest integer, a half rounded up.
MathRound(k) == (k + 5) \div 10

\* Number.prototype.toString of k / 10.
TenthsToText(k) ==
    LET abs == IF k < 0 THEN 0 - k ELSE k
    IN  (IF k < 0 THEN <<"-">> ELSE <<>>)
        \o NatToText(abs \div 10)
        \o (IF abs % 10 = 0 THEN <<>> ELSE <<".", Digits[(abs % 10) + 1]>>)

\* value.toString() of a cell value
ValueToString(v) ==
    CASE v.t = "str" -> v.v
      [] v.t = "number" -> TenthsToText(v.tenths)
      [] v.t = "boolean" -> IF v.v THEN <<"t", "r", "u", "e">> ELSE <<"f", "a", "l", "s", "e">>

\* s.includes(sub)
Includes(s, sub) ==
    \/ sub = <<>>
    \/ \E i \in 0..(Len(s) - Len(sub)) :
          s[i + 1] = sub[1] /\ SubSeq(s, i + 1, i + Len(sub)) = sub

\* The range test left out of the string branch.
validateScore_NoRangeTest(value) ==
    IF value = JsNull \/ value = JsUndefined \/ value = Str(<<>>)
    THEN JsNull
    ELSE IF value.t = "str"
         THEN IF JsTrim(value.v) = <<>>
              THEN JsNull
              ELSE IF JsParseInt(JsTrim(value.v)) # NaN
                   THEN JsParseInt(JsTrim(value.v))
                   ELSE JsNull
         ELSE IF value.t = "number"
              THEN IF MathRound(value.tenths) >= 0 /\ MathRound(value.tenths) <= 3
                   THEN Num(MathRound(value.tenths))
                   ELSE JsNull
              ELSE JsNull

validateScore(value) ==
    IF value = JsNull \/ value = JsUndefined \/ value = Str(<<>>)
    THEN JsNull
    ELSE IF value.t = "str"
         THEN IF JsTrim(value.v) = <<>>
              THEN JsNull
              ELSE IF /\ JsParseInt(JsTrim(value.v)) # NaN
                      /\ JsParseInt(JsTrim(value.v)).v >= 0
                      /\ JsParseInt(JsTrim(value.v)).v <= 3
                   THEN JsParseInt(JsTrim(value.v))
                   ELSE JsNull
         ELSE IF value.t = "number"
              THEN IF MathRound(value.tenths) >= 0 /\ MathRound(value.tenths) <= 3
                   THEN Num(MathRound(value.tenths))
                   ELSE JsNull
              ELSE JsNull

\* XLSX.CellObject: v is the raw value, w the formatted text when there is one.
TextCell(s) == [v |-> Str(s), w |-> Str(s)]

NumberCell(k) == [v |-> Tenths(k), w |-> Str(TenthsToText(k))]

RawCell(v) == [v |-> v, w |-> JsUndefined]

getCellString(cell) ==
    IF cell = JsUndefined
    THEN <<>>
    ELSE IF cell.v = JsNull \/ cell.v = JsUndefined
         THEN <<>>
         ELSE IF cell.w # JsUndefined
              THEN JsTrim(cell.w.v)
              ELSE JsTrim(ValueToString(cell.v))

----------------------------------------------------------------------------
(* Spreadsheet importer: findHeaderInfo, extractCompanyName, parseWorksheet *)

\* A worksheet holds rows of cells from sheet row `top` on (rows and columns
\* count from 0); every other cell is absent.  workbook.Sheets[name] may be
\* undefined.
CellAt(sheet, row, col) ==
    IF /\ row >= sheet.top
       /\ row - sheet.top + 1 <= Len(sheet.rows)
       /\ col >= 0
       /\ col + 1 <= Len(sheet.rows[row - sheet.top + 1])
    THEN sheet.rows[row - sheet.top + 1][col + 1]
    ELSE JsUndefined

\* XLSX.utils.decode_range(sheet['!ref'] || 'A1'): the used range ends at the
\* last row and the widest row's last column; a sheet without cells has no
\* '!ref'.
DecodeRange(sheet) ==
    IF sheet.rows = <<>>
    THEN [s |-> [c |-> 0], e |-> [r |-> 0, c |-> 0]]
    ELSE [s |-> [c |-> 0],
          e |-> [r |-> sheet.top + Len(sheet.rows) - 1,
                 c |-> Max({Len(sheet.rows[i]) : i \in 1..Len(sheet.rows)} \cup {1}) - 1]]

Min2(a, b) == IF a <= b THEN a ELSE b

\* getCellString(cell).toLowerCase()
LowerCellString(sheet, row, col) == JsToLowerCase(getCellString(CellAt(sheet, row, col)))

\* The first branch of the keyword test: "Req #" or similar.
IsReqNumberHeader(value) ==
    \/ Includes(value, <<"r", "e", "q", " ", "#">>)
    \/ Includes(value, <<"r", "e", "q", "#">>)
    \/ value = <<"r", "e", "q", "u", "i", "r", "e", "m", "e", "n", "t", " ", "n", "u", "m", "b", "e", "r">>
    \/ value = <<"r", "e", "q", " ", "n", "u", "m", "b", "e", "r">>

\* The else branch: "Requirements" (but not "Req #").
IsRequirementsHeader(value) ==
    /\ Includes(value, <<"r", "e", "q", "u", "i", "r", "e", "m", "e", "n", "t">>)
    /\ ~Includes(value, <<"#">>)
    /\ ~IsReqNumberHeader(value)

\* foundReqNumber after the column loop: the last matching column, or -1.
FoundReqNumber(sheet, row) ==
    LET range == DecodeRange(sheet)
        hits  == {col \in range.s.c..range.e.c :
                     IsReqNumberHeader(LowerCellString(sheet, row, col))}
    IN  IF hits = {} THEN -1 ELSE Max(hits)

\* foundRequirements after the column loop: the last matching column, or -1.
FoundRequirements(sheet, row) ==
    LET range == DecodeRange(sheet)
        hits  == {col \in range.s.c..range.e.c :
                     IsRequirementsHeader(LowerCellString(sheet, row, col))}
    IN  IF hits = {} THEN -1 ELSE Max(hits)

\* The scan runs to the last row of the sheet.
HeaderScanEnd_WholeSheet(sheet) == DecodeRange(sheet).e.r

\* maxRow = Math.min(range.e.r, 29)
HeaderScanEnd(sheet) == Min2(DecodeRange(sheet).e.r, HeaderScanLastRow)

DefaultHeaderInfo ==
    [row                |-> 0,
     hasReqNumberColumn |-> FALSE,
     reqNumberCol       |-> -1,
     requirementsCol    |-> 0,
     scoreCol           |-> 1,
     pastPerfCol        |-> 2,
     commentsCol        |-> 3]

\* The HeaderInfo returned from inside the row loop.
HeaderInfoAt(row, foundReqNumber, foundRequirements) ==
    [row                |-> row,
     hasReqNumberColumn |-> foundReqNumber >= 0,
     reqNumberCol       |-> foundReqNumber,
     requirementsCol    |-> foundRequirements,
     scoreCol           |-> foundRequirements + 1,
     pastPerfCol        |-> foundRequirements + 2,
     commentsCol        |-> foundRequirements + 3]

\* The row loop of findHeaderInfo from `row` on.
RECURSIVE FindHeaderFrom(_, _)
FindHeaderFrom(sheet, row) ==
    IF row > HeaderScanEnd(sheet)
    THEN DefaultHeaderInfo
    ELSE IF FoundRequirements(sheet, row) >= 0
         THEN HeaderInfoAt(row, FoundReqNumber(sheet, row), FoundRequirements(sheet, row))
         ELSE FindHeaderFrom(sheet, row + 1)

findHeaderInfo(sheet) == FindHeaderFrom(sheet, 0)

\* s.endsWith(suffix)
EndsWith(s, suffix) ==
    Len(suffix) <= Len(s) /\ SubSeq(s, Len(s) - Len(suffix) + 1, Len(s)) = suffix

\* filename.replace(/\.(xlsx?|xls)$/i, '')
StripExtension(filename) ==
    IF EndsWith(JsToLowerCase(filename), <<".", "x", "l", "s", "x">>)
    THEN SubSeq(filename, 1, Len(filename) - 5)
    ELSE IF EndsWith(JsToLowerCase(filename), <<".", "x", "l", "s">>)
         THEN SubSeq(filename, 1, Len(filename) - 4)
         ELSE filename

\* The cells of extractCompanyName's scan that name a company: a label with a
\* non-empty cell to its right.
CompanyLabelCells(sheet) ==
    {rc \in (0..Min2(DecodeRange(sheet).e.r, CompanyScanLastRow))
              \X (DecodeRange(sheet).s.c..Min2(DecodeRange(sheet).e.c, CompanyScanLastCol)) :
        /\ \/ Includes(LowerCellString(sheet, rc[1], rc[2]), <<"c", "o", "m", "p", "a", "n", "y", " ", "n", "a", "m", "e">>)
           \/ LowerCellString(sheet, rc[1], rc[2]) = <<"c", "o", "m", "p", "a", "n", "y">>
        /\ getCellString(CellAt(sheet, rc[1], rc[2] + 1)) # <<>>}

\* The first of the cells in scan order: row by row, column by column.
FirstInScanOrder(cells) ==
    CHOOSE rc \in cells :
        \A other \in cells :
            \/ rc[1] < other[1]
            \/ rc[1] = other[1] /\ rc[2] <= other[2]

\* return getCellString(nextCell) at the first label cell, a name from the
\* filename when there is none
CompanyNameFrom(sheet, filename, sheetName, labelCells) ==
    IF labelCells # {}
    THEN getCellString(CellAt(sheet, FirstInScanOrder(labelCells)[1],
                              FirstInScanOrder(labelCells)[2] + 1))
    ELSE IF /\ sheetName # JsUndefined
            /\ sheetName.v # <<>>
            /\ sheetName.v # <<"S", "h", "e", "e", "t", "1">>
         THEN StripExtension(filename) \o <<" ", "-", " ">> \o sheetName.v
         ELSE StripExtension(filename)

extractCompanyName(sheet, filename, sheetName) ==
    CompanyNameFrom(sheet, filename, sheetName, CompanyLabelCells(sheet))

\* scoreCell?.v
CellValue(cell) == IF cell = JsUndefined THEN JsUndefined ELSE cell.v

\* A row is kept only when its score cell holds something too.
KeepsRow_NeedsScore(sheet, headerInfo, row) ==
    /\ getCellString(CellAt(sheet, row, headerInfo.requirementsCol)) # <<>>
    /\ getCellString(CellAt(sheet, row, headerInfo.scoreCol)) # <<>>

\* if (!requirements) continue
KeepsRow(sheet, headerInfo, row) ==
    getCellString(CellAt(sheet, row, headerInfo.requirementsCol)) # <<>>

\* requirementNumber before the auto-numbering test
ReqNumberCellString(sheet, headerInfo, row) ==
    IF headerInfo.hasReqNumberColumn /\ headerInfo.reqNumberCol >= 0
    THEN getCellString(CellAt(sheet, row, headerInfo.reqNumberCol))
    ELSE <<>>

\* The column's text is ignored: every row is numbered.
AssignedNumber_AlwaysAuto(fromColumn, autoNumber) == NatToText(autoNumber)

\* if (!requirementNumber) requirementNumber = String(autoNumber++)
AssignedNumber(fromColumn, autoNumber) ==
    IF fromColumn = <<>> THEN NatToText(autoNumber) ELSE fromColumn

\* autoNumber after the row
NextAutoNumber(fromColumn, autoNumber) ==
    IF fromColumn = <<>> THEN autoNumber + 1 ELSE autoNumber

\* The row loop of parseWorksheet from `row` on.
RECURSIVE ParseRowsFrom(_, _, _, _)
ParseRowsFrom(sheet, headerInfo, row, autoNumber) ==
    IF row > DecodeRange(sheet).e.r
    THEN <<>>
    ELSE IF ~KeepsRow(sheet, headerInfo, row)
         THEN ParseRowsFrom(sheet, headerInfo, row + 1, autoNumber)
         ELSE <<[requirementNumber |->
                    AssignedNumber(ReqNumberCellString(sheet, headerInfo, row), autoNumber),
                 requirements |->
                    getCellString(CellAt(sheet, row, headerInfo.requirementsCol)),
                 experienceAndCapability |->
                    validateScore(CellValue(CellAt(sheet, row, headerInfo.scoreCol))),
                 pastPerformance |->
                    getCellString(CellAt(sheet, row, headerInfo.pastPerfCol)),
                 comments |->
                    getCellString(CellAt(sheet, row, headerInfo.commentsCol))]>>
              \o ParseRowsFrom(sheet, headerInfo, row + 1,
                    NextAutoNumber(ReqNumberCellString(sheet, headerInfo, row), autoNumber))

Thrown == [t |-> "thrown"]

\* Reading a property of an undefined sheet throws; a sheet without rows
\* gives null.
\* for (let row = headerInfo.row + 1; ...) with autoNumber = 1
RowsBelowHeader(sheet, headerInfo) ==
    ParseRowsFrom(sheet, headerInfo, headerInfo.row + 1, 1)

\* if (rows.length === 0) return null; otherwise the ParsedMatrix
ParsedMatrixOf(sheet, filename, sheetName, rows) ==
    IF rows = <<>>
    THEN JsNull
    ELSE [name       |-> extractCompanyName(sheet, filename, sheetName),
          sourceFile |-> filename,
          sheetName  |-> sheetName,
          rows       |-> rows]

parseWorksheet(sheet, filename, sheetName) ==
    IF sheet = JsUndefined
    THEN Thrown
    ELSE ParsedMatrixOf(sheet, filename, sheetName,
                        RowsBelowHeader(sheet, findHeaderInfo(sheet)))

----------------------------------------------------------------------------
(* Spreadsheet importer: parseExcelFile, parseExcelFiles                   *)

\* `Error parsing sheet "${sheetName}" in ${filename}: ${message}`
SheetError(sheetName, filename) ==
    [kind |-> "Error parsing sheet", sheetName |-> sheetName, filename |-> filename]

\* `No valid data found in ${filename}`
NoValidDataError(filename) == [kind |-> "No valid data found", filename |-> filename]

\* `Failed to parse ${filename}: ${message}`
FailedToParseError(filename) == [kind |-> "Failed to parse", filename |-> filename]

\* Bytes XLSX.read rejects.
Unreadable == [t |-> "unreadable"]

\* workbook.SheetNames.length > 1 ? sheetName : undefined
SheetNameArgument(workbook, j) ==
    IF Len(workbook.SheetNames) > 1 THEN workbook.SheetNames[j] ELSE JsUndefined

\* One pass of the sheet loop: the try block pushes a matrix, the catch block
\* pushes an error, and the later passes add theirs.
SheetPass(parsed, sheetName, filename, rest) ==
    [matrices |-> (IF parsed = Thrown \/ parsed = JsNull THEN <<>> ELSE <<parsed>>)
                   \o rest.matrices,
     errors   |-> (IF parsed = Thrown
                   THEN <<SheetError(sheetName, filename)>>
                   ELSE <<>>)
                   \o rest.errors]

\* A pass whose sheet throws ends the loop.
SheetPassUntilError(parsed, sheetName, filename, rest) ==
    SheetPass(parsed, sheetName, filename,
              IF parsed = Thrown THEN [matrices |-> <<>>, errors |-> <<>>] ELSE rest)

\* The loop ends at the first sheet that throws.
RECURSIVE SheetLoop_StopsAtError(_, _, _)
SheetLoop_StopsAtError(workbook, filename, j) ==
    IF j > Len(workbook.SheetNames)
    THEN [matrices |-> <<>>, errors |-> <<>>]
    ELSE SheetPassUntilError(parseWorksheet(workbook.Sheets[j], filename,
                                            SheetNameArgument(workbook, j)),
                             workbook.SheetNames[j], filename,
                             SheetLoop_StopsAtError(workbook, filename, j + 1))

\* for (const sheetName of workbook.SheetNames) from the j-th name on
RECURSIVE SheetLoop(_, _, _)
SheetLoop(workbook, filename, j) ==
    IF j > Len(workbook.SheetNames)
    THEN [matrices |-> <<>>, errors |-> <<>>]
    ELSE SheetPass(parseWorksheet(workbook.Sheets[j], filename,
                                  SheetNameArgument(workbook, j)),
                   workbook.SheetNames[j], filename,
                   SheetLoop(workbook, filename, j + 1))

\* if (matrices.length === 0 && errors.length === 0) errors.push(...)
OrNoValidData(result, filename) ==
    IF result.matrices = <<>> /\ result.errors = <<>>
    THEN [matrices |-> <<>>, errors |-> <<NoValidDataError(filename)>>]
    ELSE result

\* The "No valid data found" error left out.
parseExcelFile_NoSynthesizedError(data, filename) ==
    IF data = Unreadable
    THEN [matrices |-> <<>>, errors |-> <<FailedToParseError(filename)>>]
    ELSE SheetLoop(data, filename, 1)

parseExcelFile(data, filename) ==
    IF data = Unreadable
    THEN [matrices |-> <<>>, errors |-> <<FailedToParseError(filename)>>]
    ELSE OrNoValidData(SheetLoop(data, filename, 1), filename)

\* allMatrices.push(...result.matrices); allErrors.push(...result.errors)
FilePass(result, rest) ==
    [matrices |-> result.matrices \o rest.matrices,
     errors   |-> result.errors \o rest.errors]

\* for (const file of files) from the i-th file on
RECURSIVE FileLoop(_, _)
FileLoop(files, i) ==
    IF i > Len(files)
    THEN [matrices |-> <<>>, errors |-> <<>>]
    ELSE FilePass(parseExcelFile(files[i].data, files[i].filename),
                  FileLoop(files, i + 1))

parseExcelFiles(files) == FileLoop(files, 1)

----------------------------------------------------------------------------
(* Calls of the importer functions *)

\* Characters of a string score cell.
ScoreChars == {"2", "4", " ", "a", "."}

\* Cell values a score cell can hold: nothing, a boolean, any short string,
\* any number from -1.5 to 4.5 in steps of 0.1.
ScoreValuePool ==
    {JsNull, JsUndefined, Bool(TRUE)}
    \cup {Str(s) : s \in UNION {[1..n -> ScoreChars] : n \in 0..MaxScoreLen}}
    \cup {Tenths(k) : k \in -15..45}

\* Values of the TEXT column experience_and_capability.
DbScorePool == {JsNull, Str("f")} \cup {Str(Digits[d + 1]) : d \in 0..9}

\* Rows a sheet is made of: three header rows, data rows with and without
\* text, number or score, a company row, a blank row.
RowPool ==
    {<<TextCell(<<"R", "e", "q", " ", "#">>), TextCell(<<"R", "e", "q", "u", "i", "r", "e", "m", "e", "n", "t", "s">>)>>,
     <<TextCell(<<" ", "R", "e", "q", "u", "i", "r", "e", "m", "e", "n", "t", "s">>)>>,
     <<TextCell(<<"R", "e", "q", "u", "i", "r", "e", "m", "e", "n", "t", " ", "N", "u", "m", "b", "e", "r">>)>>,
     <<TextCell(<<" ", "1", ".", "1">>), TextCell(<<"f">>), NumberCell(26),
       TextCell(<<"p">>), TextCell(<<"c">>)>>,
     <<JsUndefined, TextCell(<<"g">>), RawCell(Str(<<"2">>))>>,
     <<TextCell(<<"4">>), TextCell(<<" ">>), NumberCell(30)>>,
     <<TextCell(<<"g">>), NumberCell(34)>>,
     <<TextCell(<<"C", "o", "m", "p", "a", "n", "y", " ", "N", "a", "m", "e">>), TextCell(<<"c">>)>>,
     <<>>}

\* Sheet rows the first cells are found at: the top of the sheet and the last
\* row of the header scan.
SheetTops == {0, HeaderScanLastRow}

FilenamePool == {<<"a", ".", "x", "l", "s", "x">>, <<"b", ".", "x", "l", "s">>}

\* Sheets of a workbook in a batch: an undefined sheet, a sheet without
\* cells, a sheet with a header only, a sheet with a header and a data row.
SheetPool ==
    {JsUndefined,
     [top |-> 0, rows |-> <<>>],
     [top |-> 0, rows |-> <<<<TextCell(<<"R", "e", "q", " ", "#">>), TextCell(<<"R", "e", "q", "u", "i", "r", "e", "m", "e", "n", "t", "s">>)>>>>],
     [top |-> 0, rows |-> <<<<TextCell(<<" ", "R", "e", "q", "u", "i", "r", "e", "m", "e", "n", "t", "s">>)>>,
                            <<TextCell(<<"g">>), NumberCell(34)>>>>]}

\* "Sheet" followed by the sheet's position
SheetNameAt(j) == Str(<<"S", "h", "e", "e", "t">> \o NatToText(j))

\* The batch of Len(names) files where file i is named names[i] and is
\* unreadable or a workbook of counts[i] sheets, the n-th sheet of the whole
\* batch being sheets[n].
FilesOf(names, readable, counts, sheets) ==
    [i \in 1..Len(names) |->
        [filename |-> names[i],
         data     |-> IF readable[i]
                      THEN [SheetNames |-> [j \in 1..counts[i] |-> SheetNameAt(j)],
                            Sheets     |-> [j \in 1..counts[i] |->
                                               sheets[SumUpTo(counts, i - 1) + j]]]
                      ELSE Unreadable]]

XlsInit ==
    /\ \/ \E value \in ScoreValuePool :
            xlsCall = [op |-> "validateScore", arg |-> value]
       \/ \E value \in DbScorePool :
            xlsCall = [op |-> "parseScore", arg |-> value]
       \/ \E top \in SheetTops, n \in 0..MaxSheetRows :
            \E rows \in [1..n -> RowPool] :
               xlsCall = [op |-> "parseWorksheet", arg |-> [top |-> top, rows |-> rows]]
       \/ \E n \in 0..MaxFiles :
            \E names \in [1..n -> FilenamePool], readable \in [1..n -> BOOLEAN],
               counts \in [1..n -> 0..MaxSheets] :
               /\ \A i \in 1..n : ~readable[i] => counts[i] = 0
               /\ SumUpTo(counts, n) <= MaxSheets
               /\ \E sheets \in [1..SumUpTo(counts, n) -> SheetPool] :
                     xlsCall = [op  |-> "parseExcelFiles",
                                arg |-> FilesOf(names, readable, counts, sheets)]
    /\ xlsOut = NoResult

ValidateScore ==
    /\ xlsCall.op = "validateScore"
    /\ xlsOut = NoResult
    /\ xlsOut' = Returned(validateScore(xlsCall.arg))
    /\ UNCHANGED <<xlsCall, storeVars, cmpVars, numVars, auxVars>>

ParseScore ==
    /\ xlsCall.op = "parseScore"
    /\ xlsOut = NoResult
    /\ xlsOut' = Returned(parseScore(xlsCall.arg))
    /\ UNCHANGED <<xlsCall, storeVars, cmpVars, numVars, auxVars>>

\* parseWorksheet on a single-sheet workbook's sheet; the header it detected
\* is kept beside the result.
ParseWorksheet ==
    /\ xlsCall.op = "parseWorksheet"
    /\ xlsOut = NoResult
    /\ xlsOut' = Returned([headerInfo |-> findHeaderInfo(xlsCall.arg),
                           parsed     |-> parseWorksheet(xlsCall.arg, <<"a", ".", "x", "l", "s", "x">>, JsUndefined)])
    /\ UNCHANGED <<xlsCall, storeVars, cmpVars, numVars, auxVars>>

\* parseExcelFiles; what parseExcelFile returned for each file is kept beside
\* the result.
ParseExcelFiles ==
    /\ xlsCall.op = "parseExcelFiles"
    /\ xlsOut = NoResult
    /\ xlsOut' = Returned([perFile |-> [i \in 1..Len(xlsCall.arg) |->
                                           parseExcelFile(xlsCall.arg[i].data,
                                                          xlsCall.arg[i].filename)],
                           batch   |-> parseExcelFiles(xlsCall.arg)])
    /\ UNCHANGED <<xlsCall, storeVars, cmpVars, numVars, auxVars>>

InitXls == StoreInit /\ CmpIdle /\ NumIdle /\ XlsInit /\ AuxIdle

NextXls ==
    \/ ValidateScore
    \/ ParseScore
    \/ ParseWorksheet
    \/ ParseExcelFiles

SpecXls == InitXls /\ [][NextXls]_vars

----------------------------------------------------------------------------
(* Properties of the importer: results and errors of a batch *)

XlsReturned(op) == xlsCall.op = op /\ xlsOut # NoResult

BatchFiles == xlsCall.arg

FileResult(i) == xlsOut.v.perFile[i]

IsWorkbook(i) == BatchFiles[i].data # Unreadable

SheetCount(i) == IF IsWorkbook(i) THEN Len(BatchFiles[i].data.SheetNames) ELSE 0

\* C15: parseExcelFile never returns an empty matrices list together with
\* an empty errors list.
C15_NeverEmptyResult ==
    XlsReturned("parseExcelFiles")
        => \A i \in 1..Len(BatchFiles) :
              ~(FileResult(i).matrices = <<>> /\ FileResult(i).errors = <<>>)

\* A workbook whose sheets all gave no row and none of which threw.
C15_Witness ==
    /\ XlsReturned("parseExcelFiles")
    /\ \E i \in 1..Len(BatchFiles) :
          /\ SheetCount(i) >= 1
          /\ \A j \in 1..SheetCount(i) : BatchFiles[i].data.Sheets[j] # JsUndefined
          /\ FileResult(i).matrices = <<>>
          /\ Len(FileResult(i).errors) = 1

\* Sheet j of file i throws when it is parsed.
SheetThrows(i, j) == BatchFiles[i].data.Sheets[j] = JsUndefined

\* What sheet j of file i parses to on its own.
SheetAlone(i, j) ==
    parseWorksheet(BatchFiles[i].data.Sheets[j], BatchFiles[i].filename,
                   SheetNameArgument(BatchFiles[i].data, j))

\* Sheets of file i that parse to a matrix.
GoodSheets(i) ==
    {j \in 1..SheetCount(i) : ~SheetThrows(i, j) /\ SheetAlone(i, j) # JsNull}

ThrowingSheets(i) == {j \in 1..SheetCount(i) : SheetThrows(i, j)}

\* Positions in file i's errors of the errors that name sheet j.
ErrorsNaming(i, j) ==
    {k \in 1..Len(FileResult(i).errors) :
        /\ FileResult(i).errors[k].kind = "Error parsing sheet"
        /\ FileResult(i).errors[k].sheetName = BatchFiles[i].data.SheetNames[j]}

\* The lengths of the per-file lists.
MatrixCounts == [i \in 1..Len(BatchFiles) |-> Len(FileResult(i).matrices)]

ErrorCounts == [i \in 1..Len(BatchFiles) |-> Len(FileResult(i).errors)]

\* C16: a sheet that throws leaves exactly one error, every other sheet of
\* the workbook is parsed, and the batch result is the matrices and the
\* errors of every file, in input order.
C16_FailuresDoNotBlock ==
    XlsReturned("parseExcelFiles")
        => /\ \A i \in 1..Len(BatchFiles) :
                IsWorkbook(i)
                  => /\ \A j \in 1..SheetCount(i) :
                          Cardinality(ErrorsNaming(i, j)) = IF SheetThrows(i, j) THEN 1 ELSE 0
                     /\ \A j1 \in ThrowingSheets(i), j2 \in ThrowingSheets(i) :
                          j1 < j2 => \A k1 \in ErrorsNaming(i, j1), k2 \in ErrorsNaming(i, j2) :
                                        k1 < k2
                     /\ Len(FileResult(i).matrices) = Cardinality(GoodSheets(i))
                     /\ \A j \in GoodSheets(i) :
                          FileResult(i).matrices[Cardinality({g \in GoodSheets(i) : g <= j})]
                             = SheetAlone(i, j)
           /\ \A i \in 1..Len(BatchFiles) :
                ~IsWorkbook(i) => Len(FileResult(i).errors) = 1
           /\ Len(xlsOut.v.batch.matrices) = SumUpTo(MatrixCounts, Len(BatchFiles))
           /\ Len(xlsOut.v.batch.errors) = SumUpTo(ErrorCounts, Len(BatchFiles))
           /\ \A i \in 1..Len(BatchFiles) :
                /\ \A k \in 1..MatrixCounts[i] :
                      xlsOut.v.batch.matrices[SumUpTo(MatrixCounts, i - 1) + k]
                         = FileResult(i).matrices[k]
                /\ \A k \in 1..ErrorCounts[i] :
                      xlsOut.v.batch.errors[SumUpTo(ErrorCounts, i - 1) + k]
                         = FileResult(i).errors[k]

\* A workbook whose first sheet threw and whose second sheet was parsed.
C16_Witness ==
    /\ XlsReturned("parseExcelFiles")
    /\ \E i \in 1..Len(BatchFiles) :
          /\ SheetCount(i) >= 2
          /\ SheetThrows(i, 1)
          /\ 2 \in GoodSheets(i)
          /\ Len(xlsOut.v.batch.matrices) >= 1
          /\ Len(xlsOut.v.batch.errors) >= 1

----------------------------------------------------------------------------
(* Properties of the importer: header detection and row extraction *)

TheSheet == xlsCall.arg

HeaderFound == xlsOut.v.headerInfo

ParsedSheet == xlsOut.v.parsed

\* The trimmed, lower-case text of the sheet's cell at (row, col).
CellKey(row, col) == KeyOf(getCellString(CellAt(TheSheet, row, col)))

LastSheetRow == DecodeRange(TheSheet).e.r

LastSheetCol == DecodeRange(TheSheet).e.c

\* Rows among the first 30 with a cell that contains "requirement" and no "#".
RowsWithRequirementCell ==
    {row \in 0..LastSheetRow :
        /\ row < 30
        /\ \E col \in 0..LastSheetCol :
              /\ Includes(CellKey(row, col), <<"r", "e", "q", "u", "i", "r", "e", "m", "e", "n", "t">>)
              /\ ~Includes(CellKey(row, col), <<"#">>)}

\* The same rows, a cell that reads exactly "requirement number" not counted.
RowsWithRequirementsTextCell ==
    {row \in 0..LastSheetRow :
        /\ row < 30
        /\ \E col \in 0..LastSheetCol :
              /\ Includes(CellKey(row, col), <<"r", "e", "q", "u", "i", "r", "e", "m", "e", "n", "t">>)
              /\ ~Includes(CellKey(row, col), <<"#">>)
              /\ CellKey(row, col) # <<"r", "e", "q", "u", "i", "r", "e", "m", "e", "n", "t", " ", "n", "u", "m", "b", "e", "r">>}

IsDefaultLayout(h) ==
    /\ h.row = 0
    /\ ~h.hasReqNumberColumn
    /\ h.requirementsCol = 0
    /\ h.scoreCol = 1
    /\ h.pastPerfCol = 2
    /\ h.commentsCol = 3

\* C17 as stated: the header row is the topmost of the first 30 rows with a
\* cell that contains "requirement" and no "#"; without such a row the layout
\* is the default one.
C17_TopmostRequirementRowIsHeader ==
    XlsReturned("parseWorksheet")
        => IF RowsWithRequirementCell = {}
           THEN IsDefaultLayout(HeaderFound)
           ELSE /\ \A row \in RowsWithRequirementCell : HeaderFound.row <= row
                /\ HeaderFound.row \in RowsWithRequirementCell

\* C17 amended: the header row is the topmost of the first 30 rows with a
\* cell that contains "requirement" and no "#" and is not exactly
\* "requirement number"; without such a row the layout is the default one.
C17_TopmostRequirementsTextRowIsHeader ==
    XlsReturned("parseWorksheet")
        => IF RowsWithRequirementsTextCell = {}
           THEN IsDefaultLayout(HeaderFound)
           ELSE /\ \A row \in RowsWithRequirementsTextCell : HeaderFound.row <= row
                /\ HeaderFound.row \in RowsWithRequirementsTextCell

\* Two rows match and the upper one, not the first row of the sheet, was chosen.
C17_Witness ==
    /\ XlsReturned("parseWorksheet")
    /\ Cardinality(RowsWithRequirementsTextCell) >= 2
    /\ HeaderFound.row > 0
    /\ \A row \in RowsWithRequirementsTextCell : HeaderFound.row <= row

\* Sheet rows below the header whose requirements-text cell is not empty.
KeptRows ==
    {row \in (HeaderFound.row + 1)..LastSheetRow :
        getCellString(CellAt(TheSheet, row, HeaderFound.requirementsCol)) # <<>>}

\* The sheet row of the k-th kept row.
KeptRow(k) == CHOOSE row \in KeptRows : Cardinality({q \in KeptRows : q <= row}) = k

\* The text of the requirement-number cell of a sheet row.
NumberCellText(row) == getCellString(CellAt(TheSheet, row, HeaderFound.reqNumberCol))

\* ParsedRows and kept sheet rows correspond one to one, in order.
RowsAreKeptRows ==
    IF KeptRows = {}
    THEN ParsedSheet = JsNull
    ELSE /\ ParsedSheet # JsNull
         /\ Len(ParsedSheet.rows) = Cardinality(KeptRows)
         /\ \A k \in 1..Cardinality(KeptRows) :
               ParsedSheet.rows[k].requirements
                  = getCellString(CellAt(TheSheet, KeptRow(k), HeaderFound.requirementsCol))

\* C18 as stated: with a requirement-number column in the header row, every
\* ParsedRow has the text of that column's cell in its sheet row as its
\* number, none is auto-generated.
C18_NumbersComeFromTheColumn ==
    (XlsReturned("parseWorksheet") /\ HeaderFound.hasReqNumberColumn)
        => /\ RowsAreKeptRows
           /\ \A k \in 1..Cardinality(KeptRows) :
                 ParsedSheet.rows[k].requirementNumber = NumberCellText(KeptRow(k))

\* Kept rows up to `row` whose requirement-number cell is empty.
UnnumberedUpTo(row) == {q \in KeptRows : q <= row /\ NumberCellText(q) = <<>>}

\* C18 amended: with a requirement-number column in the header row, every
\* ParsedRow whose cell in that column is not empty has the cell's trimmed
\* text as its number, and the ParsedRows whose cell is empty are numbered
\* "1", "2", "3", ... among themselves.
C18_NumbersComeFromTheColumnUnlessEmpty ==
    (XlsReturned("parseWorksheet") /\ HeaderFound.hasReqNumberColumn)
        => /\ RowsAreKeptRows
           /\ \A k \in 1..Cardinality(KeptRows) :
                 ParsedSheet.rows[k].requirementNumber
                    = IF NumberCellText(KeptRow(k)) # <<>>
                      THEN NumberCellText(KeptRow(k))
                      ELSE NatToText(Cardinality(UnnumberedUpTo(KeptRow(k))))

\* A sheet with a number column gave one row its cell's number and another
\* row, whose cell is empty, a generated one.
C18_Witness ==
    /\ XlsReturned("parseWorksheet")
    /\ HeaderFound.hasReqNumberColumn
    /\ \E k \in 1..Cardinality(KeptRows) :
          /\ NumberCellText(KeptRow(k)) # <<>>
          /\ ParsedSheet.rows[k].requirementNumber = NumberCellText(KeptRow(k))
    /\ \E k \in 1..Cardinality(KeptRows) : NumberCellText(KeptRow(k)) = <<>>

\* C19: without a requirement-number column the ParsedRows are exactly the
\* rows below the header with non-empty requirements text, in sheet order,
\* and the k-th of them has number k.
C19_AutoNumbersCountKeptRows ==
    (XlsReturned("parseWorksheet") /\ ~HeaderFound.hasReqNumberColumn)
        => /\ RowsAreKeptRows
           /\ \A k \in 1..Cardinality(KeptRows) :
                 ParsedSheet.rows[k].requirementNumber = NatToText(k)

\* A row was skipped between two kept rows, and a kept row has an empty
\* score cell.
C19_Witness ==
    /\ XlsReturned("parseWorksheet")
    /\ ~HeaderFound.hasReqNumberColumn
    /\ Cardinality(KeptRows) >= 2
    /\ \E row \in (HeaderFound.row + 1)..LastSheetRow :
          /\ row \notin KeptRows
          /\ \E a \in KeptRows, b \in KeptRows : a < row /\ row < b
    /\ \E row \in KeptRows :
          getCellString(CellAt(TheSheet, row, HeaderFound.scoreCol)) = <<>>
    /\ ParsedSheet.rows[Cardinality(KeptRows)].requirementNumber
          = NatToText(Cardinality(KeptRows))

----------------------------------------------------------------------------
(* Properties of the score normalization *)

ScoreValues == {Num(n) : n \in 0..3} \cup {JsNull}

\* The integer nearest to k / 10, a half going up.
NearestInteger(k) == CHOOSE n \in -10..10 : 10 * n - 5 <= k /\ k < 10 * n + 5

\* How many digits the trimmed text begins with.
LeadingDigits(t) ==
    CHOOSE n \in 0..Len(Trimmed(t)) :
        /\ \A i \in 1..n : Trimmed(t)[i] \in Range(Digits)
        /\ n < Len(Trimmed(t)) => Trimmed(t)[n + 1] \notin Range(Digits)

\* The score a cell value stands for: a number rounded, a string parsed as
\* an integer, accepted from 0 to 3; anything else unrated.
ScoreOf(value) ==
    IF value \in {JsNull, JsUndefined}
    THEN JsNull
    ELSE IF value.t = "number"
         THEN IF NearestInteger(value.tenths) \in 0..3
              THEN Num(NearestInteger(value.tenths))
              ELSE JsNull
         ELSE IF value.t = "str"
              THEN IF /\ LeadingDigits(value.v) > 0
                      /\ DecimalValue(SubSeq(Trimmed(value.v), 1, LeadingDigits(value.v))) \in 0..3
                   THEN Num(DecimalValue(SubSeq(Trimmed(value.v), 1, LeadingDigits(value.v))))
                   ELSE JsNull
              ELSE JsNull

----------------------------------------------------------------------------
(* Spreadsheet exporter: exportMatrixToExcel                               *)

\* The most rows a matrix to export has.
MaxExpRows == 3

\* SCORE_CONFIG[score].description
ScoreDescription(score) ==
    CASE score = 3 ->
           <<"E", "x", "c", "e", "l", "l", "e", "n", "t", " ", "c", "a", "p",
             "a", "b", "i", "l", "i", "t", "y", " ", "-", " ", "s", "i", "g",
             "n", "i", "f", "i", "c", "a", "n", "t", " ", "e", "x", "p", "e",
             "r", "i", "e", "n", "c", "e", " ", "a", "n", "d", " ", "p", "a",
             "s", "t", " ", "p", "e", "r", "f", "o", "r", "m", "a", "n", "c",
             "e", " ", "i", "n", "p", "u", "t", "s", ";", " ", "a", "p", "p",
             "l", "i", "c", "a", "b", "l", "e", " ", "t", "o", " ", "N", "I",
             "T", "E", " ", "S", "O", "W">>
      [] score = 2 ->
           <<"G", "o", "o", "d", " ", "c", "a", "p", "a", "b", "i", "l", "i",
             "t", "y", " ", "-", " ", "s", "i", "g", "n", "i", "f", "i", "c",
             "a", "n", "t", " ", "e", "x", "p", "e", "r", "i", "e", "n", "c",
             "e", " ", "a", "n", "d", " ", "p", "a", "s", "t", " ", "p", "e",
             "r", "f", "o", "r", "m", "a", "n", "c", "e", " ", "i", "n", "p",
             "u", "t", "s", ";", " ", "a", "p", "p", "l", "i", "c", "a", "b",
             "l", "e", " ", "t", "o", " ", "N", "I", "T", "E", " ", "S", "O",
             "W", " ", "a", "n", "d", " ", "e", "x", "e", "c", "u", "t", "e",
             "d", " ", "o", "n", " ", "o", "t", "h", "e", "r", " ", "t", "h",
             "a", "n", " ", "T", "r", "a", "i", "n", "i", "n", "g", " ", "p",
             "r", "o", "g", "r", "a", "m", "s", " ", "b", "u", "t", " ", "o",
             "n", " ", "r", "e", "l", "a", "t", "e", "d", " ", "p", "l", "a",
             "t", "f", "o", "r", "m", "s">>
      [] score = 1 ->
           <<"S", "o", "m", "e", " ", "c", "a", "p", "a", "b", "i", "l", "i",
             "t", "y", " ", "-", " ", "m", "i", "n", "o", "r", " ", "o", "r",
             " ", "s", "c", "a", "t", "t", "e", "r", "e", "d", " ", "e", "x",
             "p", "e", "r", "i", "e", "n", "c", "e">>
      [] score = 0 ->
           <<"N", "o", " ", "c", "a", "p", "a", "b", "i", "l", "i", "t", "y">>

\* legendScores
LegendScores == <<3, 2, 1, 0>>

\* The worksheet row of the column headers.
HeaderRowNumber == 9

\* The worksheet row of the first data row.
FirstDataRow == 10

TitleText == <<"D", "r", "a", "f", "t", " ", "P", "W", "S", " ", "-", " ", "C",
             "a", "p", "a", "b", "i", "l", "i", "t", "y", " ", "M", "a", "t",
             "r", "i", "x">>

HeaderValues ==
    <<Str(<<"R", "e", "q", " ", "#">>),
      Str(<<"R", "e", "q", "u", "i", "r", "e", "m", "e", "n", "t", "s">>),
      Str(<<"E", "x", "p", "e", "r", "i", "e", "n", "c", "e", " ", "a", "n",
          "d", " ", "C", "a", "p", "a", "b", "i", "l", "i", "t", "y">>),
      Str(<<"P", "a", "s", "t", " ", "P", "e", "r", "f", "o", "r", "m", "a", "n", "c", "e">>),
      Str(<<"C", "o", "m", "m", "e", "n", "t", "s">>)>>

CompanyNameLabel == <<"C", "o", "m", "p", "a", "n", "y", " ", "N", "a", "m", "e">>

DateLabel == <<"D", "a", "t", "e">>

VersionLabel == <<"V", "e", "r", "s", "i", "o", "n">>

\* The values set in one of the worksheet rows above the data rows, cell by
\* cell from column A; JsNull stands for a cell that is never set.
PreambleRow(r, metadata) ==
    CASE r = 1 ->
           <<Str(TitleText), JsNull, JsNull,
             Num(LegendScores[1]), Str(ScoreDescription(LegendScores[1]))>>
      [] r \in 2..4 ->
           <<JsNull, JsNull, JsNull,
             Num(LegendScores[r]), Str(ScoreDescription(LegendScores[r]))>>
      [] r = 5 -> <<Str(CompanyNameLabel), JsNull, Str(metadata.companyName)>>
      [] r = 6 -> <<Str(DateLabel), JsNull, Str(metadata.date)>>
      [] r = 7 -> <<Str(VersionLabel), JsNull, Str(metadata.version)>>
      [] r = 8 -> <<>>
      [] r = HeaderRowNumber -> HeaderValues

\* The five cells of worksheet row 10 + i
DataRow(matrixRow) ==
    <<Str(matrixRow.requirementNumber),
      Str(matrixRow.requirements),
      IF matrixRow.experienceAndCapability # JsNull
      THEN matrixRow.experienceAndCapability
      ELSE Str(<<>>),
      Str(matrixRow.pastPerformance),
      Str(matrixRow.comments)>>

\* What Array.prototype.sort makes of the comparator's result: NaN counts
\* as +0.
SortOrder(v) == IF v = NaN THEN 0 ELSE v.v

\* (a, b) => compareRequirementNumbers(a.requirementNumber, b.requirementNumber)
\* as the sort reads it
RowComparator(a, b) ==
    SortOrder(compareRequirementNumbers(a.requirementNumber, b.requirementNumber))

\* The comparator's answer for every pair of rows, by their positions in the
\* array.
ComparatorTable(rows) ==
    [i \in 1..Len(rows) |-> [j \in 1..Len(rows) |-> RowComparator(rows[i], rows[j])]]

\* A consistent comparator in the sense of Array.prototype.sort: equal is an
\* equivalence, and before and after are transitive and mirror each other.
ConsistentComparator(order) ==
    \A i \in DOMAIN order, j \in DOMAIN order, k \in DOMAIN order :
        /\ order[i][i] = 0
        /\ order[i][j] = 0 => order[j][i] = 0
        /\ order[i][j] < 0 => order[j][i] > 0
        /\ order[i][j] > 0 => order[j][i] < 0
        /\ (order[i][j] = 0 /\ order[j][k] = 0) => order[i][k] = 0
        /\ (order[i][j] < 0 /\ order[j][k] < 0) => order[i][k] < 0
        /\ (order[i][j] > 0 /\ order[j][k] > 0) => order[i][k] > 0

IndexOrders(n) ==
    {p \in [1..n -> 1..n] : \A i \in 1..n, j \in 1..n : i # j => p[i] # p[j]}

\* p puts the rows in comparator order, rows that compare equal in their
\* order in the array.
IsStableSort(order, p) ==
    \A i \in DOMAIN order, j \in DOMAIN order :
        i < j => \/ order[p[i]][p[j]] < 0
                 \/ order[p[i]][p[j]] = 0 /\ p[i] < p[j]

\* The orders a sort may leave the array in: with a consistent comparator
\* the stable sort, otherwise an order the engine is free to choose.
SortOrders(order) ==
    IF ConsistentComparator(order)
    THEN {p \in IndexOrders(Len(order)) : IsStableSort(order, p)}
    ELSE IndexOrders(Len(order))

\* [...rows].sort(comparator)
SortOutcomes(rows) ==
    {[i \in 1..Len(rows) |-> rows[p[i]]] : p \in SortOrders(ComparatorTable(rows))}

\* The rows are written in the order the matrix holds them.
exportMatrixToExcel_Unsorted(matrix, metadata, sortedRows) ==
    [r \in 1..(HeaderRowNumber + Len(matrix.rows)) |->
        IF r <= HeaderRowNumber
        THEN PreambleRow(r, metadata)
        ELSE DataRow(matrix.rows[r - FirstDataRow + 1])]

\* The worksheet "Capability Matrix" as the values of its rows 1, 2, ...;
\* sortedRows is what the sort of matrix.rows gave.
exportMatrixToExcel(matrix, metadata, sortedRows) ==
    [r \in 1..(HeaderRowNumber + Len(sortedRows)) |->
        IF r <= HeaderRowNumber
        THEN PreambleRow(r, metadata)
        ELSE DataRow(sortedRows[r - FirstDataRow + 1])]

----------------------------------------------------------------------------
(* The exported workbook written to a file and read back by the importer   *)

\* The cell XLSX.read gives for a value the exporter set.  A string cell
\* holding the empty string is read back as an empty text cell or as no cell
\* at all (emptyCells is "kept" or "dropped").
CellOfValue(value, emptyCells) ==
    IF value = JsNull
    THEN JsUndefined
    ELSE IF value.t = "num"
         THEN NumberCell(10 * value.v)
         ELSE IF value.v = <<>> /\ emptyCells = "dropped"
              THEN JsUndefined
              ELSE TextCell(value.v)

\* workbook.addWorksheet("Capability Matrix")
ExportSheetName ==
    Str(<<"C", "a", "p", "a", "b", "i", "l", "i", "t", "y", " ",
          "M", "a", "t", "r", "i", "x">>)

\* The workbook XLSX.read returns for the file written from the worksheet:
\* worksheet row r is sheet row r - 1, column c is sheet column c - 1.
ReadBack(worksheet, emptyCells) ==
    [SheetNames |-> <<ExportSheetName>>,
     Sheets     |-> <<[top  |-> 0,
                       rows |-> [r \in 1..Len(worksheet) |->
                                   [c \in 1..Len(worksheet[r]) |->
                                       CellOfValue(worksheet[r][c], emptyCells)]]]>>]

----------------------------------------------------------------------------
(* Calls of the exporter *)

\* Rows of a matrix: numbers that sort by value and not by spelling, an
\* invalid number, an unassigned number, text with white space around it, a
\* row without text, rated and unrated rows.
ExpRowPool ==
    {[requirementNumber |-> <<"2">>, requirements |-> <<"f">>,
      experienceAndCapability |-> Num(0), pastPerformance |-> <<"p">>, comments |-> <<"c">>],
     [requirementNumber |-> <<"a">>, requirements |-> <<"g">>,
      experienceAndCapability |-> Num(3), pastPerformance |-> <<>>, comments |-> <<>>],
     [requirementNumber |-> <<"1">>, requirements |-> <<"f">>,
      experienceAndCapability |-> JsNull, pastPerformance |-> <<>>, comments |-> <<"c">>],
     [requirementNumber |-> <<"1", ".", "1">>, requirements |-> <<>>,
      experienceAndCapability |-> Num(2), pastPerformance |-> <<"p">>, comments |-> <<>>],
     [requirementNumber |-> <<>>, requirements |-> <<"g">>,
      experienceAndCapability |-> Num(1), pastPerformance |-> <<>>, comments |-> <<>>],
     [requirementNumber |-> <<"1", "0">>, requirements |-> <<" ", "f">>,
      experienceAndCapability |-> JsNull, pastPerformance |-> <<>>, comments |-> <<"c">>]}

\* Export metadata: a plain company name, and one that reads like a column
\* header.
ExpMetadataPool ==
    {[companyName |-> <<"g">>, date |-> <<"1">>, version |-> <<"1">>],
     [companyName |-> <<"R", "e", "q", "u", "i", "r", "e", "m", "e", "n", "t", "s">>,
      date |-> <<"1">>, version |-> <<"1">>]}

\* The file the workbook is saved under.
ExportFilename == <<"a", ".", "x", "l", "s", "x">>

ExpInit ==
    /\ \E n \in 0..MaxExpRows :
         \E rows \in [1..n -> ExpRowPool], metadata \in ExpMetadataPool :
            expCall = [op       |-> "exportMatrixToExcel",
                       matrix   |-> [rows |-> [i \in 1..n |->
                                       [requirementNumber       |-> rows[i].requirementNumber,
                                        requirements            |-> rows[i].requirements,
                                        experienceAndCapability |-> rows[i].experienceAndCapability,
                                        pastPerformance         |-> rows[i].pastPerformance,
                                        comments                |-> rows[i].comments,
                                        rowOrder                |-> i - 1]]],
                       metadata |-> metadata]
    /\ expOut = NoResult

\* exportMatrixToExcel returns the workbook.
ExportMatrixToExcel ==
    /\ expCall.op = "exportMatrixToExcel"
    /\ expOut = NoResult
    /\ \E sortedRows \in SortOutcomes(expCall.matrix.rows) :
          expOut' = Returned([worksheet |-> exportMatrixToExcel(expCall.matrix,
                                                                expCall.metadata, sortedRows),
                              imported  |-> NoResult])
    /\ UNCHANGED <<expCall, storeVars, cmpVars, numVars, xlsVars, saveVars>>

\* The saved workbook is read and parsed by parseExcelFile.
ImportExportedFile ==
    /\ expOut # NoResult
    /\ expOut.v.imported = NoResult
    /\ \E emptyCells \in {"kept", "dropped"} :
          expOut' = Returned([worksheet |-> expOut.v.worksheet,
                              imported  |-> parseExcelFile(ReadBack(expOut.v.worksheet, emptyCells),
                                                           ExportFilename)])
    /\ UNCHANGED <<expCall, storeVars, cmpVars, numVars, xlsVars, saveVars>>

InitExp == StoreInit /\ CmpIdle /\ NumIdle /\ XlsIdle /\ ExpInit /\ SaveInit

NextExp ==
    \/ ExportMatrixToExcel
    \/ ImportExportedFile

SpecExp == InitExp /\ [][NextExp]_vars

----------------------------------------------------------------------------
(* Properties of the exporter *)

Exported == expCall.op = "exportMatrixToExcel" /\ expOut # NoResult

ExportedSheet == expOut.v.worksheet

MatrixRows == expCall.matrix.rows

\* The worksheet rows from row 10 on.
DataRowNumbers == FirstDataRow..Len(ExportedSheet)

\* The values a matrix row is to show in columns A to E.
ShownValues(matrixRow) ==
    <<Str(matrixRow.requirementNumber),
      Str(matrixRow.requirements),
      IF matrixRow.experienceAndCapability = JsNull
      THEN Str(<<>>)
      ELSE matrixRow.experienceAndCapability,
      Str(matrixRow.pastPerformance),
      Str(matrixRow.comments)>>

\* Each matrix row is on one worksheet row of its own.
OneDataRowPerMatrixRow ==
    /\ Len(ExportedSheet) = FirstDataRow - 1 + Len(MatrixRows)
    /\ \E p \in [DataRowNumbers -> 1..Len(MatrixRows)] :
          /\ \A r1 \in DataRowNumbers, r2 \in DataRowNumbers : r1 # r2 => p[r1] # p[r2]
          /\ \A r \in DataRowNumbers : ExportedSheet[r] = ShownValues(MatrixRows[p[r]])

\* The requirement number shown on a worksheet row.
NumberOnRow(r) == ExportedSheet[r][1].v

ComparesLower(a, b) ==
    /\ compareRequirementNumbers(a, b) # NaN
    /\ compareRequirementNumbers(a, b).v < 0

\* C21: exportMatrixToExcel emits one data row per matrix row from worksheet
\* row 10 on, and of any two exported rows the one whose requirement number
\* compares lower under compareRequirementNumbers is on the earlier row.
C21_ExportedInComparatorOrder ==
    Exported =>
        /\ OneDataRowPerMatrixRow
        /\ \A r1 \in DataRowNumbers, r2 \in DataRowNumbers :
              ComparesLower(NumberOnRow(r1), NumberOnRow(r2)) => r1 < r2

----------------------------------------------------------------------------
(* Properties of the exporter: export, then import *)

Imported == Exported /\ expOut.v.imported # NoResult

ImportResult == expOut.v.imported

\* The five fields of a row that a ParsedRow holds too.
RowContent(matrixRow) ==
    [requirementNumber       |-> matrixRow.requirementNumber,
     requirements            |-> matrixRow.requirements,
     experienceAndCapability |-> matrixRow.experienceAndCapability,
     pastPerformance         |-> matrixRow.pastPerformance,
     comments                |-> matrixRow.comments]

\* p lists the matrix rows so that no row comes after one it compares lower
\* than.
InNaturalSortOrder(p) ==
    \A i \in 1..Len(MatrixRows), j \in 1..Len(MatrixRows) :
        i < j => ~ComparesLower(MatrixRows[p[j]].requirementNumber,
                                MatrixRows[p[i]].requirementNumber)

\* C22 as stated: parsing the exported file yields one ParsedMatrix whose
\* rows are the matrix's rows in natural-sort order with the same five fields.
C22_RoundTripOfAnyMatrix ==
    Imported =>
        /\ Len(ImportResult.matrices) = 1
        /\ \E p \in IndexOrders(Len(MatrixRows)) :
              /\ InNaturalSortOrder(p)
              /\ ImportResult.matrices[1].rows =
                    [i \in 1..Len(MatrixRows) |-> RowContent(MatrixRows[p[i]])]

\* Text the importer reads back as it is: nothing to trim.
ReadsBackVerbatim(text) == JsTrim(text) = text

\* Text that the header search takes for the "Requirements" column header.
ReadsAsRequirementsHeader(text) == IsRequirementsHeader(JsToLowerCase(JsTrim(text)))

\* A matrix and metadata the importer reads back row for row: at least one
\* row, every row with a number and a requirement text, no text with white
\* space around it, no metadata that reads like the column header.
RoundTripInput ==
    /\ MatrixRows # <<>>
    /\ \A i \in 1..Len(MatrixRows) :
          /\ MatrixRows[i].requirementNumber # <<>>
          /\ MatrixRows[i].requirements # <<>>
          /\ ReadsBackVerbatim(MatrixRows[i].requirementNumber)
          /\ ReadsBackVerbatim(MatrixRows[i].requirements)
          /\ ReadsBackVerbatim(MatrixRows[i].pastPerformance)
          /\ ReadsBackVerbatim(MatrixRows[i].comments)
    /\ ~ReadsAsRequirementsHeader(expCall.metadata.companyName)
    /\ ~ReadsAsRequirementsHeader(expCall.metadata.date)
    /\ ~ReadsAsRequirementsHeader(expCall.metadata.version)

\* The ParsedRow that shows what a worksheet data row shows.
ContentShown(values) ==
    [requirementNumber       |-> values[1].v,
     requirements            |-> values[2].v,
     experienceAndCapability |-> IF values[3] = Str(<<>>) THEN JsNull ELSE values[3],
     pastPerformance         |-> values[4].v,
     comments                |-> values[5].v]

AllNumbersValid ==
    \A i \in 1..Len(MatrixRows) : isValidRequirementNumber(MatrixRows[i].requirementNumber)

\* C22, amended: for a matrix of at least one row whose rows all carry a
\* number and a requirement text, whose texts have no white space around them
\* and whose metadata does not read like the column header, parsing the
\* exported file yields no error and one ParsedMatrix; its rows are the
\* matrix's rows, one each, with the same five fields, in the order of the
\* worksheet, which is natural-sort order when every number is valid.
C22_RoundTripOfReadableMatrix ==
    (Imported /\ RoundTripInput) =>
        /\ ImportResult.errors = <<>>
        /\ Len(ImportResult.matrices) = 1
        /\ Len(ImportResult.matrices[1].rows) = Len(MatrixRows)
        /\ \A i \in 1..Len(MatrixRows) :
              ImportResult.matrices[1].rows[i] = ContentShown(ExportedSheet[FirstDataRow - 1 + i])
        /\ \E p \in IndexOrders(Len(MatrixRows)) :
              /\ AllNumbersValid => InNaturalSortOrder(p)
              /\ ImportResult.matrices[1].rows =
                    [i \in 1..Len(MatrixRows) |-> RowContent(MatrixRows[p[i]])]

\* A matrix stored as "2" before "1", one row unrated, comes back as "1"
\* before "2".
C22_Witness ==
    /\ Imported
    /\ RoundTripInput
    /\ AllNumbersValid
    /\ Len(MatrixRows) >= 2
    /\ MatrixRows[1].requirementNumber = <<"2">>
    /\ \E i \in 1..Len(MatrixRows) : MatrixRows[i].experienceAndCapability = JsNull
    /\ Len(ImportResult.matrices) = 1
    /\ ImportResult.matrices[1].rows[1].requirementNumber = <<"1">>

----------------------------------------------------------------------------
(* Reordering rows: updateRowOrders and its caller reorderRows             *)

\* UPDATE matrix_rows SET row_order = ? WHERE id = ?
SetRowOrder(tbl, id, rowOrder) ==
    [i \in 1..Len(tbl) |->
        IF tbl[i].id = id THEN [tbl[i] EXCEPT !.row_order = rowOrder] ELSE tbl[i]]

\* The loop "for (const update of updates) UPDATE matrix_rows ...": statement
\* i applies updates[i]; it rejects when i = failAt.
RECURSIVE UpdateLoop(_, _, _, _)
UpdateLoop(tbl, updates, i, failAt) ==
    IF i > Len(updates)
    THEN [matrix_rows |-> tbl, ok |-> TRUE]
    ELSE IF i = failAt
         THEN [matrix_rows |-> tbl, ok |-> FALSE]
         ELSE UpdateLoop(SetRowOrder(tbl, updates[i].id, updates[i].rowOrder),
                         updates, i + 1, failAt)

\* SELECT matrix_id FROM matrix_rows WHERE id = updates[0].id, then
\* updateMatrixTimestamp(row.matrix_id) if there is such a row: statements
\* Len(updates) + 1 and Len(updates) + 2.
TouchOwnerOfFirst(tbl, mats, updates, now, failAt) ==
    IF updates = <<>>
    THEN [matrices |-> mats, ok |-> TRUE]
    ELSE IF failAt = Len(updates) + 1
         THEN [matrices |-> mats, ok |-> FALSE]
         ELSE IF \A i \in 1..Len(tbl) : tbl[i].id # updates[1].id
              THEN [matrices |-> mats, ok |-> TRUE]
              ELSE IF failAt = Len(updates) + 2
                   THEN [matrices |-> mats, ok |-> FALSE]
                   ELSE [matrices |-> updateMatrixTimestamp(mats,
                                         (CHOOSE r \in Range(tbl) : r.id = updates[1].id).matrix_id,
                                         now),
                         ok       |-> TRUE]

\* The timestamp step after the loop, skipped when the loop threw.
AfterUpdateLoop(loop, mats, updates, now, failAt) ==
    IF loop.ok
    THEN [matrix_rows |-> loop.matrix_rows,
          matrices    |-> TouchOwnerOfFirst(loop.matrix_rows, mats, updates, now, failAt).matrices,
          ok          |-> TouchOwnerOfFirst(loop.matrix_rows, mats, updates, now, failAt).ok]
    ELSE [matrix_rows |-> loop.matrix_rows, matrices |-> mats, ok |-> FALSE]

\* Outcome of updateRowOrders(updates) on the tables (tbl, mats).
OrdersOutcome(tbl, mats, updates, now, failAt) ==
    AfterUpdateLoop(UpdateLoop(tbl, updates, 1, failAt), mats, updates, now, failAt)

\* The outcome written to the tables.
StoreOutcome(op, arg, out) ==
    /\ matrix_rows' = out.matrix_rows
    /\ matrices' = out.matrices
    /\ Record(op, arg, out.ok, <<>>)

updateRowOrders(updates, failAt) ==
    /\ clock < MaxClock
    /\ StoreOutcome("updateRowOrders", updates,
                    OrdersOutcome(matrix_rows, matrices, updates, clock, failAt))
    /\ UNCHANGED <<nextMatrixId, nextRowId>>

\* The ids of the rows of a matrix.
RowIdsOf(tbl, matrixId) == {r.id : r \in {x \in Range(tbl) : x.matrix_id = matrixId}}

\* reorderRows(rows): rows is the active matrix's rows in the order the user
\* dragged them to; every row gets its index as rowOrder, and the (id,
\* rowOrder) pairs go to updateRowOrders.  A failure is caught: the hook
\* reloads the matrix and leaves the store as the failed call left it.
ReorderRows ==
    \E m \in matrices :
        \E ids \in [1..Cardinality(RowIdsOf(matrix_rows, m.id)) -> RowIdsOf(matrix_rows, m.id)] :
            /\ \A i \in DOMAIN ids, j \in DOMAIN ids : i # j => ids[i] # ids[j]
            /\ \E failAt \in 0..(Len(ids) + 2) :
                  updateRowOrders([i \in DOMAIN ids |-> [id |-> ids[i], rowOrder |-> i - 1]],
                                  failAt)
            /\ UNCHANGED <<undoData, cmpVars, libVars>>

NextOrder ==
    \/ CreateMatrix
    \/ CreateMatrixRow
    \/ ReorderRows

\* The store, its rows created and reordered over statements that may reject.
SpecOrder == Init /\ [][NextOrder]_vars

----------------------------------------------------------------------------
(* Properties of a reorder *)

\* The rows of the matrix the updates name, as a set of (id, row_order).
OrdersOf(tbl, updates) ==
    {<<r.id, r.row_order>> : r \in {x \in Range(tbl) : \E i \in 1..Len(updates) : updates[i].id = x.id}}

\* C23: after updateRowOrders every row of the matrix carries its new display
\* order, the positions 0..n-1 each used once, or, if the call failed, every
\* row carries the display order it had; never a mixture.
C23_ReorderIsAllOrNothing ==
    call.op = "updateRowOrders" =>
        IF call.ok
        THEN /\ OrdersOf(matrix_rows, call.arg)
                   = {<<call.arg[i].id, i - 1>> : i \in 1..Len(call.arg)}
             /\ {call.arg[i].rowOrder : i \in 1..Len(call.arg)} = 0..(Len(call.arg) - 1)
        ELSE OrdersOf(matrix_rows, call.arg) = OrdersOf(call.rowsBefore, call.arg)

----------------------------------------------------------------------------
(* Properties of the store: deleting a matrix *)

\* C24: after deleteMatrix(id) returns, the store holds neither the matrix id
\* nor any row whose owning matrix is id.
C24_DeleteMatrixDeletesItsRows ==
    (call.op = "deleteMatrix" /\ call.ok) =>
        /\ \A m \in matrices : m.id # call.arg
        /\ \A i \in 1..Len(matrix_rows) : matrix_rows[i].matrix_id # call.arg

\* A matrix that had a row, beside a matrix whose row stays, was deleted.
C24_Witness ==
    /\ call.op = "deleteMatrix"
    /\ call.ok
    /\ \E m \in call.matricesBefore : m.id = call.arg
    /\ \E i \in 1..Len(call.rowsBefore) : call.rowsBefore[i].matrix_id = call.arg
    /\ matrix_rows # <<>>

----------------------------------------------------------------------------
(* Deriving requirement numbers from one another *)

suggestNextNumber(previousNumber) ==
    IF previousNumber = <<>>
    THEN <<"1">>
    ELSE JoinDot(IncrementLast(SplitDot(previousNumber)))

\* The ".1" left out: the number itself.
indentNumber_NoSegment(previousNumber) ==
    IF previousNumber = <<>> THEN <<"1">> ELSE previousNumber

indentNumber(previousNumber) ==
    IF previousNumber = <<>> THEN <<"1">> ELSE previousNumber \o <<".", "1">>

getParentNumber(reqNum) ==
    IF reqNum = <<>>
    THEN <<>>
    ELSE IF Len(SplitDot(reqNum)) <= 1
         THEN <<>>
         ELSE JoinDot(DropLast(SplitDot(reqNum)))

\* The number of derivation steps followed from one number.
MaxDeriveSteps == 2

\* "1" followed by e zeros.
PowerOfTenText(e) == <<"1">> \o [i \in 1..e |-> "0"]

\* The valid numbers derivations start from: every short one, and the two
\* where doubles stop being exact and where they are written with an exponent.
DeriveStarts ==
    ValidNumTexts \cup {PowerOfTenText(FirstInexactPowerOfTen),
                        PowerOfTenText(FirstExponentPowerOfTen)}

\* ops[i] led from values[i] to values[i + 1].
DeriveInit ==
    \E p \in DeriveStarts :
        /\ numCall = [op |-> "derive", a |-> p, b |-> <<>>, c |-> <<>>]
        /\ numOut = Returned([ops |-> <<>>, values |-> <<p>>])

Derived == numOut.v.values[Len(numOut.v.values)]

DeriveStep(op, value) ==
    /\ numCall.op = "derive"
    /\ Len(numOut.v.ops) < MaxDeriveSteps
    /\ numOut' = Returned([ops |-> Append(numOut.v.ops, op),
                           values |-> Append(numOut.v.values, value)])
    /\ UNCHANGED <<numCall, storeVars, cmpVars, xlsVars, auxVars>>

SuggestNextNumber ==
    numCall.op = "derive" /\ DeriveStep("suggestNextNumber", suggestNextNumber(Derived))

IndentNumber ==
    numCall.op = "derive" /\ DeriveStep("indentNumber", indentNumber(Derived))

OutdentDerivedNumber ==
    numCall.op = "derive" /\ DeriveStep("outdentNumber", outdentNumber(Derived))

GetParentNumber ==
    numCall.op = "derive" /\ DeriveStep("getParentNumber", getParentNumber(Derived))

InitDerive == StoreInit /\ CmpIdle /\ DeriveInit /\ XlsIdle /\ AuxIdle

NextDerive ==
    \/ SuggestNextNumber
    \/ IndentNumber
    \/ OutdentDerivedNumber
    \/ GetParentNumber

SpecDerive == InitDerive /\ [][NextDerive]_vars

----------------------------------------------------------------------------
(* Properties of derived requirement numbers *)

DerivedOps == numOut.v.ops

DerivedValues == numOut.v.values

\* Step i indents a non-empty valid number and step i + 1 outdents the result.
IndentThenOutdentAt(i) ==
    /\ i + 1 <= Len(DerivedOps)
    /\ DerivedOps[i] = "indentNumber"
    /\ DerivedOps[i + 1] = "outdentNumber"
    /\ DerivedValues[i] # <<>>
    /\ isValidRequirementNumber(DerivedValues[i])

\* C25: for every non-empty valid requirement number p, outdenting the
\* indentation of p gives the number suggestNextNumber gives for p.
C25_OutdentOfIndentIsNext ==
    numCall.op = "derive" =>
        \A i \in 1..Len(DerivedOps) :
            IndentThenOutdentAt(i) =>
                DerivedValues[i + 2] = suggestNextNumber(DerivedValues[i])

\* A two-segment number was indented and the result outdented.
C25_Witness ==
    /\ numCall.op = "derive"
    /\ IndentThenOutdentAt(1)
    /\ Len(SplitDot(DerivedValues[1])) = 2

\* A comparator result above zero.
IsPositive(x) ==
    x # NaN /\ IF x.t = "big" THEN x.sign = 1 ELSE x.v > 0

\* C26: every number derived from a valid requirement number (the empty one
\* included) by suggestNextNumber, indentNumber, outdentNumber and
\* getParentNumber is valid, and suggestNextNumber of a non-empty valid number
\* compares strictly greater than that number.
C26_DerivedNumbersValidAndNextGreater ==
    numCall.op = "derive" =>
        /\ \A i \in 1..Len(DerivedValues) : isValidRequirementNumber(DerivedValues[i])
        /\ \A i \in 1..Len(DerivedOps) :
               (DerivedOps[i] = "suggestNextNumber"
                    /\ DerivedValues[i] # <<>>
                    /\ isValidRequirementNumber(DerivedValues[i]))
               => IsPositive(compareRequirementNumbers(DerivedValues[i + 1],
                                                        DerivedValues[i]))

----------------------------------------------------------------------------
(* The debounced save of row edits (useDebouncedSave) *)

\* The number of edits followed; edit n writes the value n into its field.
MaxEdits == 3

\* {}: an object without fields
NoUpdates == [f \in {} |-> 0]

\* pendingSaves.has(rowId)
HasPending(map, rowId) == \E i \in 1..Len(map) : map[i].rowId = rowId

\* pendingSaves.get(rowId) || {}
PendingOrEmpty(map, rowId) ==
    IF HasPending(map, rowId)
    THEN (CHOOSE e \in {map[i] : i \in 1..Len(map)} : e.rowId = rowId).updates
    ELSE NoUpdates

\* { ...existing, ...updates }
MergeUpdates(existing, updates) ==
    [f \in DOMAIN existing \cup DOMAIN updates |->
        IF f \in DOMAIN updates THEN updates[f] ELSE existing[f]]

\* pendingSaves.set(rowId, updates): a key the Map holds keeps its place.
MapSet(map, rowId, updates) ==
    IF HasPending(map, rowId)
    THEN [i \in 1..Len(map) |->
            IF map[i].rowId = rowId THEN [rowId |-> rowId, updates |-> updates] ELSE map[i]]
    ELSE Append(map, [rowId |-> rowId, updates |-> updates])

\* UPDATE matrix_rows SET <the fields input defines> WHERE id = ?
updateMatrixRow(tbl, id, input) ==
    [tbl EXCEPT ![id] = [f \in SaveFields |-> IF f \in DOMAIN input THEN input[f] ELSE @[f]]]

\* How a call of updateMatrixRow ends: it resolves, rejects with an Error, or
\* rejects with a value that is no Error.
SaveOutcomes == {"ok", "Error", "other"}

\* The store after updateMatrixRow(entry.rowId, entry.updates) was called: the
\* statement is issued with the call and applied unless the call rejects.
StoreAfterCall(tbl, entry, outcome) ==
    IF outcome = "ok" THEN updateMatrixRow(tbl, entry.rowId, entry.updates) ELSE tbl

\* The log after updateMatrixRow(entry.rowId, entry.updates) was called.
LogAfterCall(log, entry, outcome) ==
    [log EXCEPT !.passed = Append(@, [rowId |-> entry.rowId, updates |-> entry.updates,
                                      outcome |-> outcome])]

\* The catch block: onError is called for an Error.
LogAfterCatch(log, entry, outcome) ==
    IF outcome = "Error"
    THEN [log EXCEPT !.reported = Append(@, entry.rowId)]
    ELSE log

\* performSave up to its first await: the entries are taken, the Map is
\* cleared and updateMatrixRow is called for the first entry.
performSave(outcome) ==
    IF pendingSaves = <<>>
    THEN UNCHANGED <<pendingSaves, saveRuns, savedRows, saveLog>>
    ELSE /\ pendingSaves' = <<>>
         /\ saveRuns' = Append(saveRuns, [saves |-> pendingSaves, index |-> 1,
                                          outcome |-> outcome])
         /\ savedRows' = StoreAfterCall(savedRows, pendingSaves[1], outcome)
         /\ saveLog' = LogAfterCall(saveLog, pendingSaves[1], outcome)

\* queueSave(rowId, { [field]: value }): edit number n carries the value n.
QueueSave ==
    /\ Len(saveLog.queued) < MaxEdits
    /\ \E rowId \in SaveRowIds, field \in SaveFields :
          /\ pendingSaves' = MapSet(pendingSaves, rowId,
                                    MergeUpdates(PendingOrEmpty(pendingSaves, rowId),
                                                 [f \in {field} |-> Len(saveLog.queued) + 1]))
          /\ saveLog' = [saveLog EXCEPT !.queued =
                            Append(@, [rowId |-> rowId, field |-> field,
                                       mounted |-> isMountedRef])]
    /\ timeoutRef' = "scheduled"
    /\ UNCHANGED <<isMountedRef, saveRuns, savedRows, storeVars, cmpVars, numVars, xlsVars,
                   expVars>>

\* The timeout elapses: its callback runs performSave if the hook is mounted.
TimerFires ==
    /\ timeoutRef = "scheduled"
    /\ timeoutRef' = "done"
    /\ IF isMountedRef
       THEN \E outcome \in SaveOutcomes : performSave(outcome)
       ELSE UNCHANGED <<pendingSaves, saveRuns, savedRows, saveLog>>
    /\ UNCHANGED <<isMountedRef, storeVars, cmpVars, numVars, xlsVars, expVars>>

\* The call a run awaits settles: a rejection goes through the catch block,
\* then the loop calls updateMatrixRow for the next entry or ends.
SaveSettles ==
    \E i \in 1..Len(saveRuns), outcome \in SaveOutcomes :
        /\ IF saveRuns[i].index = Len(saveRuns[i].saves)
           THEN /\ saveRuns' = [k \in 1..(Len(saveRuns) - 1) |->
                                   IF k < i THEN saveRuns[k] ELSE saveRuns[k + 1]]
                /\ savedRows' = savedRows
                /\ saveLog' = LogAfterCatch(saveLog, saveRuns[i].saves[saveRuns[i].index],
                                            saveRuns[i].outcome)
           ELSE /\ saveRuns' = [saveRuns EXCEPT ![i].index = @ + 1, ![i].outcome = outcome]
                /\ savedRows' = StoreAfterCall(savedRows,
                                               saveRuns[i].saves[saveRuns[i].index + 1], outcome)
                /\ saveLog' = LogAfterCall(LogAfterCatch(saveLog,
                                                         saveRuns[i].saves[saveRuns[i].index],
                                                         saveRuns[i].outcome),
                                           saveRuns[i].saves[saveRuns[i].index + 1], outcome)
        /\ UNCHANGED <<pendingSaves, timeoutRef, isMountedRef, storeVars, cmpVars, numVars,
                       xlsVars, expVars>>

\* The cleanup of the effect: the timeout is cleared and the pending saves
\* are flushed.
Unmount ==
    /\ isMountedRef
    /\ isMountedRef' = FALSE
    /\ timeoutRef' = IF timeoutRef = "null" THEN "null" ELSE "done"
    /\ \E outcome \in SaveOutcomes : performSave(outcome)
    /\ UNCHANGED <<storeVars, cmpVars, numVars, xlsVars, expVars>>

InitSave == StoreInit /\ CmpIdle /\ NumIdle /\ XlsIdle /\ ExpIdle /\ SaveInit

NextSave ==
    \/ QueueSave
    \/ TimerFires
    \/ SaveSettles
    \/ Unmount

SpecSave == InitSave /\ [][NextSave]_vars

\* A scheduled timeout elapses unless it is cleared, and a call of the store
\* settles.
SpecSaveFair ==
    /\ InitSave
    /\ [][NextSave]_vars
    /\ WF_vars(TimerFires)
    /\ WF_vars(SaveSettles)

----------------------------------------------------------------------------
(* Properties of the debounced save *)

\* The number of the last edit of the field, 0 if it was never edited.
LastQueued(rowId, field) ==
    Max({0} \cup {n \in 1..Len(saveLog.queued) :
                     saveLog.queued[n].rowId = rowId /\ saveLog.queued[n].field = field})

\* Nothing is pending, scheduled or awaited.
AllSavesCompleted ==
    /\ pendingSaves = <<>>
    /\ saveRuns = <<>>
    /\ timeoutRef # "scheduled"

NoSaveRejected ==
    \A k \in 1..Len(saveLog.passed) : saveLog.passed[k].outcome = "ok"

\* C27: once all saves have completed (none of them rejected), each field of
\* each row holds in the store the value most recently passed to queueSave for
\* it, whatever the interleaving of queueSave, the timer and the runs of
\* performSave was.
C27_LastQueuedValueIsStored ==
    (saveLog.queued # <<>> /\ AllSavesCompleted /\ NoSaveRejected) =>
        \A rowId \in SaveRowIds, field \in SaveFields :
            savedRows[rowId][field] = LastQueued(rowId, field)

Queued(n) == n <= Len(saveLog.queued)

\* Edit n was passed to updateMatrixRow, as it was queued or merged with a
\* later edit of its field.
PassedOn(n) ==
    /\ Queued(n)
    /\ \E k \in 1..Len(saveLog.passed) :
          /\ saveLog.passed[k].rowId = saveLog.queued[n].rowId
          /\ saveLog.queued[n].field \in DOMAIN saveLog.passed[k].updates
          /\ saveLog.passed[k].updates[saveLog.queued[n].field] >= n

\* The save of edit n was reported through onError.
Reported(n) ==
    /\ Queued(n)
    /\ \E k \in 1..Len(saveLog.reported) : saveLog.reported[k] = saveLog.queued[n].rowId

\* C28: every update passed to queueSave is eventually passed to
\* updateMatrixRow or reported through onError, and no entry stays in
\* pendingSaves forever.
C28_EveryQueuedUpdateIsSaved ==
    /\ \A n \in 1..MaxEdits : Queued(n) ~> (PassedOn(n) \/ Reported(n))
    /\ (pendingSaves # <<>>) ~> (pendingSaves = <<>>)

----------------------------------------------------------------------------
(* Properties of the store: rows and their matrices *)

\* C29: whatever sequence of createMatrix, createMatrixRow, deleteMatrix,
\* deleteRowsByRequirement and restoreRows calls was made (an undo after the
\* deletion of a matrix included), the owning matrix of every stored row is
\* in the store.
C29_NoOrphanRows ==
    \A i \in 1..Len(matrix_rows) :
        \E m \in matrices : m.id = matrix_rows[i].matrix_id

----------------------------------------------------------------------------
(* The comparison view's delete-requirement flow (ComparisonTab) *)

\* Stable insertion of a row into rows sorted by row_order.
RECURSIVE InsertByRowOrder(_, _)
InsertByRowOrder(sorted, row) ==
    IF sorted = <<>>
    THEN <<row>>
    ELSE IF sorted[Len(sorted)].row_order <= row.row_order
         THEN Append(sorted, row)
         ELSE Append(InsertByRowOrder(SubSeq(sorted, 1, Len(sorted) - 1), row),
                     sorted[Len(sorted)])

\* ORDER BY row_order ASC
RECURSIVE OrderByRowOrder(_)
OrderByRowOrder(rows) ==
    IF rows = <<>>
    THEN <<>>
    ELSE InsertByRowOrder(OrderByRowOrder(SubSeq(rows, 1, Len(rows) - 1)), rows[Len(rows)])

\* SELECT * FROM matrix_rows WHERE matrix_id = ? ORDER BY row_order ASC
getMatrixRows(matrixId) ==
    LET found == OrderByRowOrder(SelectSeq(matrix_rows, LAMBDA r : r.matrix_id = matrixId))
    IN  [i \in 1..Len(found) |-> mapMatrixRowRow(found[i])]

\* { ...matrix, rows }
getMatrixWithRows(m) ==
    [id |-> m.id, name |-> m.name, createdAt |-> m.created_at, updatedAt |-> m.updated_at,
     rows |-> getMatrixRows(m.id)]

\* SELECT * FROM matrices ORDER BY created_at DESC
RECURSIVE getAllMatrices(_)
getAllMatrices(mats) ==
    IF mats = {}
    THEN <<>>
    ELSE LET newest == CHOOSE m \in mats : \A n \in mats : n.created_at <= m.created_at
         IN  <<newest>> \o getAllMatrices(mats \ {newest})

\* matricesWithRows.filter((m) => !hiddenMatrixIds.has(m.id))
VisibleMatrices(matricesWithRows, hiddenMatrixIds) ==
    SelectSeq(matricesWithRows, LAMBDA m : m.id \notin hiddenMatrixIds)

\* The tab has loaded every matrix with its rows; the user has hidden some.
LoadRows ==
    /\ cmpPc = "idle"
    /\ matrices # {}
    /\ \E hiddenMatrixIds \in SUBSET {m.id : m \in matrices} :
          cmpInput' = VisibleMatrices([i \in 1..Cardinality(matrices) |->
                                          getMatrixWithRows(getAllMatrices(matrices)[i])],
                                      hiddenMatrixIds)
    /\ cmpPc' = "input"
    /\ UNCHANGED <<cmpData, cmpInfo, storeVars, libVars>>

\* The delete button of a row of the comparison table passes row.requirement.
HandleDeleteRequirementRequest ==
    /\ cmpPc = "built"
    /\ \E k \in 1..Len(cmpData.rows) :
          cmpInfo' = getRequirementDeleteInfo(cmpData, cmpData.rows[k].requirement)
    /\ cmpPc' = "asked"
    /\ UNCHANGED <<cmpInput, cmpData, storeVars, libVars>>

\* The deletion is confirmed in the dialog that shows the warning.
ConfirmDeleteRequirement ==
    /\ cmpPc = "asked"
    /\ deleteRowsByRequirement(cmpInfo.requirement, 0)
    /\ undoData' = IF call'.ok /\ call'.result.deletedCount > 0
                   THEN call'.result.deletedRows
                   ELSE undoData
    /\ cmpPc' = "confirmed"
    /\ UNCHANGED <<cmpInput, cmpData, cmpInfo, libVars>>

\* The matrices are filled before the tab is opened.
CreateMatrixBeforeTab == cmpPc = "idle" /\ CreateMatrix

CreateMatrixRowBeforeTab == cmpPc = "idle" /\ CreateMatrixRow

NextTab ==
    \/ CreateMatrixBeforeTab
    \/ CreateMatrixRowBeforeTab
    \/ LoadRows
    \/ BuildComparisonData
    \/ HandleDeleteRequirementRequest
    \/ ConfirmDeleteRequirement

SpecTab == Init /\ [][NextTab]_vars

----------------------------------------------------------------------------
(* Properties of the delete-requirement flow *)

\* A row with a score, or past performance or comments that are not blank.
RowCarriesData(row) ==
    \/ row.experienceAndCapability # JsNull
    \/ NonBlank(row.pastPerformance) # {}
    \/ NonBlank(row.comments) # {}

\* The matrices the warning of the dialog lists.
WarnedMatrixIds == {e.matrixId : e \in Range(cmpInfo.companiesWithData)}

\* C30: every row with a score, past performance or comments that the
\* confirmed deletion removed belongs to a matrix the warning computed by
\* getRequirementDeleteInfo listed.
C30_DeletedDataWasWarnedAbout ==
    (cmpPc = "confirmed" /\ call.ok) =>
        \A i \in 1..Len(call.result.deletedRows) :
            RowCarriesData(call.result.deletedRows[i])
                => call.result.deletedRows[i].matrixId \in WarnedMatrixIds

====
